---- MODULE Spec2Model ----
(***************************************************************************)
(* Two-stage ARM page table walk of ptw_viz: the stage-2 walker            *)
(* (IPA -> PA), the stage-1 walker (VA -> IPA, with a nested stage-2 walk  *)
(* for each table address) and the PageTableWalker facade that flattens    *)
(* the events of both into one trace.                                      *)
(*                                                                         *)
(* Representation of numbers.  Addresses are 48 bits wide and descriptors  *)
(* 64 bits wide, beyond the integers of the model checker, so an address   *)
(* or descriptor value n is the set of the positions of its 1 bits:        *)
(* 0x40001003 is {30, 12, 1, 0} and 0 is {}.  a & b is their intersection, *)
(* a | b their union, a >> s and a << s move the positions, a + b is a     *)
(* carry-propagating addition.  Levels, table indices, event ids and       *)
(* counters are ordinary integers.                                         *)
(*                                                                         *)
(* An Optional[T] field is None == <<>> or Some(x) == <<x>>.               *)
(* Human-readable text (description, message) is not modelled; the         *)
(* purpose of a flattened event is kept as the tuple of its parts.         *)
(***************************************************************************)
EXTENDS Integers, Sequences, FiniteSets, TLC

\* ------------------------------------------------------------------ bits

None == <<>>
Some(x) == <<x>>
IsSome(o) == o # <<>>
TheValue(o) == o[1]

BitAnd(a, b) == a \cap b
BitOr(a, b) == a \cup b
BitXor(a, b) == (a \ b) \cup (b \ a)
Shr(a, s) == {b - s : b \in {x \in a : x >= s}}
Shl(a, s) == {b + s : b \in a}
\* (1 << n) - 1
LowMask(n) == 0 .. (n - 1)
\* the bits hi..lo set, as in the hexadecimal masks of descriptor.py
BitField(hi, lo) == lo .. hi

RECURSIVE BitAdd(_, _)
BitAdd(a, b) == IF b = {} THEN a ELSE BitAdd(BitXor(a, b), Shl(BitAnd(a, b), 1))

RECURSIVE Pow2(_)
Pow2(n) == IF n = 0 THEN 1 ELSE 2 * Pow2(n - 1)

\* a small integer as a bit set, and back
RECURSIVE ToBitsFrom(_, _)
ToBitsFrom(n, i) ==
    IF n = 0 THEN {}
    ELSE (IF n % 2 = 1 THEN {i} ELSE {}) \cup ToBitsFrom(n \div 2, i + 1)
ToBits(n) == ToBitsFrom(n, 0)
RECURSIVE ToInt(_)
ToInt(a) == IF a = {} THEN 0
            ELSE LET b == CHOOSE x \in a : TRUE IN Pow2(b) + ToInt(a \ {b})

RECURSIVE HexFrom(_, _)
HexFrom(digits, acc) ==
    IF digits = <<>> THEN acc
    ELSE HexFrom(Tail(digits), BitOr(Shl(acc, 4), ToBits(Head(digits))))
\* a hexadecimal literal, most significant digit first: Hex(<<4,0,0,0>>) is 0x4000
Hex(digits) == HexFrom(digits, {})

\* ------------------------------------------------------------- granule.py

GRANULE_4KB_CONFIG ==
    [granule_type |-> "GRANULE_4KB", page_size |-> 4096, offset_bits |-> 12,
     index_bits |-> 9, entries_per_table |-> 512,
     level_shifts |-> <<39, 30, 21, 12>>,
     block_offsets |-> [l \in {1, 2} |-> IF l = 1 THEN LowMask(30) ELSE LowMask(21)],
     min_level |-> 0]

GRANULE_16KB_CONFIG ==
    [granule_type |-> "GRANULE_16KB", page_size |-> 16384, offset_bits |-> 14,
     index_bits |-> 11, entries_per_table |-> 2048,
     level_shifts |-> <<47, 36, 25, 14>>,
     block_offsets |-> [l \in {2} |-> LowMask(25)],
     min_level |-> 0]

GRANULE_64KB_CONFIG ==
    [granule_type |-> "GRANULE_64KB", page_size |-> 65536, offset_bits |-> 16,
     index_bits |-> 13, entries_per_table |-> 8192,
     level_shifts |-> <<0, 42, 29, 16>>,
     block_offsets |-> [l \in {2} |-> LowMask(29)],
     min_level |-> 1]

\* the exception get_granule_config raises for a size other than 4, 16, 64:
\* ValueError("Unsupported granule size: <granule_kb>KB. Must be 4, 16, or 64.")
UnsupportedGranule(granule_kb) ==
    [raises |-> "ValueError",
     message |-> <<"Unsupported granule size: ", granule_kb, "KB. Must be 4, 16, or 64.">>]

get_granule_config(granule_kb) ==
    IF granule_kb = 4 THEN GRANULE_4KB_CONFIG
    ELSE IF granule_kb = 16 THEN GRANULE_16KB_CONFIG
    ELSE IF granule_kb = 64 THEN GRANULE_64KB_CONFIG
    ELSE UnsupportedGranule(granule_kb)

get_index_mask(index_bits) == LowMask(index_bits)
get_offset_mask(offset_bits) == LowMask(offset_bits)

\* calculate_index without the index mask
calculate_index_NoMask(address, level, config) ==
    IF level < config.min_level \/ level > 3 THEN 0
    ELSE ToInt(Shr(address, config.level_shifts[level + 1]))

\* the index is below 2^13, so it is returned as an integer
calculate_index(address, level, config) ==
    IF level < config.min_level \/ level > 3 THEN 0
    ELSE LET shift == config.level_shifts[level + 1]
             mask == get_index_mask(config.index_bits)
         IN IF config.granule_type = "GRANULE_16KB" /\ level = 0
            THEN ToInt(BitAnd(Shr(address, shift), LowMask(1)))
            ELSE ToInt(BitAnd(Shr(address, shift), mask))

calculate_page_offset(address, config) ==
    BitAnd(address, get_offset_mask(config.offset_bits))

calculate_block_offset(address, level, config) ==
    IF level \in DOMAIN config.block_offsets
    THEN BitAnd(address, config.block_offsets[level])
    ELSE calculate_page_offset(address, config)

\* ------------------------------------------- address model (spec 4.1)
\* An address object is [value, bits, granule_kb].

VirtualAddress(value, va_bits, granule_kb) ==
    [value |-> value, bits |-> va_bits, granule_kb |-> granule_kb]
IntermediatePhysicalAddress(value) == [value |-> value, bits |-> 48, granule_kb |-> 4]
PhysicalAddress(value) == [value |-> value, bits |-> 48, granule_kb |-> 4]

get_index(a, level) == calculate_index(a.value, level, get_granule_config(a.granule_kb))
page_offset(a) == calculate_page_offset(a.value, get_granule_config(a.granule_kb))
l1_block_offset(a) == calculate_block_offset(a.value, 1, get_granule_config(a.granule_kb))
l2_block_offset(a) == calculate_block_offset(a.value, 2, get_granule_config(a.granule_kb))
\* the top 64 - va_bits bits are all set
uses_ttbr1(va) == \A b \in va.bits .. 63 : b \in va.value
\* table_base + index * 8
calculate_descriptor_address(table_base, index, descriptor_size) ==
    BitAdd(table_base, ToBits(index * descriptor_size))

\* ---------------------------------------------------------- descriptor.py

is_valid(value) == BitAnd(value, LowMask(1)) = ToBits(1)
is_table(value, level) == level < 3 /\ BitAnd(value, LowMask(2)) = ToBits(3)
\* is_block without the level condition
is_block_AnyLevel(value, level) == BitAnd(value, LowMask(2)) = ToBits(1)
is_block(value, level) == level \in {1, 2} /\ BitAnd(value, LowMask(2)) = ToBits(1)
is_page(value, level) == level = 3 /\ BitAnd(value, LowMask(2)) = ToBits(3)

descriptor_type(value, level) ==
    IF ~is_valid(value) THEN "INVALID"
    ELSE IF is_table(value, level) THEN "TABLE"
    ELSE IF is_block(value, level) THEN "BLOCK"
    ELSE IF is_page(value, level) THEN "PAGE"
    ELSE "INVALID"

\* TableDescriptor
next_table_address(value) == BitAnd(value, BitField(47, 12))
ap_table(value) == ToInt(BitAnd(Shr(value, 61), LowMask(2)))
\* a table descriptor that never limits EL0 execution
uxn_table_Never(value) == FALSE
uxn_table(value) == BitAnd(Shr(value, 60), LowMask(1)) # {}
pxn_table(value) == BitAnd(Shr(value, 59), LowMask(1)) # {}

\* PageDescriptor / BlockDescriptor
page_output_address(value) == BitAnd(value, BitField(47, 12))
\* the block base taken with the page mask
block_output_address_PageMask(value, level) == BitAnd(value, BitField(47, 12))
block_output_address(value, level) ==
    IF level = 1 THEN BitAnd(value, BitField(47, 30))
    ELSE IF level = 2 THEN BitAnd(value, BitField(47, 21))
    ELSE BitAnd(value, BitField(47, 12))
desc_ap(value) == ToInt(BitAnd(Shr(value, 6), LowMask(2)))
desc_uxn(value) == BitAnd(Shr(value, 54), LowMask(1)) # {}
desc_pxn(value) == BitAnd(Shr(value, 53), LowMask(1)) # {}
desc_access_flag(value) == BitAnd(Shr(value, 10), LowMask(1)) # {}

\* the field defaults of AccessPermissions, whatever the bits
from_ap_bits_Defaults(ap, uxn, pxn) ==
    [read_el0 |-> FALSE, write_el0 |-> FALSE, read_el1 |-> TRUE, write_el1 |-> TRUE,
     execute_el0 |-> TRUE, execute_el1 |-> TRUE]

from_ap_bits(ap, uxn, pxn) ==
    IF ap = 0 THEN
        [read_el0 |-> FALSE, write_el0 |-> FALSE, read_el1 |-> TRUE, write_el1 |-> TRUE,
         execute_el0 |-> ~uxn, execute_el1 |-> ~pxn]
    ELSE IF ap = 1 THEN
        [read_el0 |-> TRUE, write_el0 |-> TRUE, read_el1 |-> TRUE, write_el1 |-> TRUE,
         execute_el0 |-> ~uxn, execute_el1 |-> ~pxn]
    ELSE IF ap = 2 THEN
        [read_el0 |-> FALSE, write_el0 |-> FALSE, read_el1 |-> TRUE, write_el1 |-> FALSE,
         execute_el0 |-> ~uxn, execute_el1 |-> ~pxn]
    ELSE
        [read_el0 |-> TRUE, write_el0 |-> FALSE, read_el1 |-> TRUE, write_el1 |-> FALSE,
         execute_el0 |-> ~uxn, execute_el1 |-> ~pxn]

\* -------------------------------------------------------------- faults.py

AccessTypes == {"READ", "WRITE", "EXECUTE"}

FaultRecord(fault_type, stage, level, address, access_type, far_el1, far_el2) ==
    [fault_type |-> fault_type, stage |-> stage, level |-> level, address |-> address,
     access_type |-> access_type, far_el1 |-> far_el1, far_el2 |-> far_el2]

\* f"0x{value:016X}": the hexadecimal digits of value, most significant
\* first, zero-padded to at least 16 digits
FormatHex16(value) ==
    LET n == IF value = {} THEN 16
             ELSE LET top == CHOOSE b \in value : \A c \in value : c <= b
                  IN IF top \div 4 + 1 > 16 THEN top \div 4 + 1 ELSE 16
    IN <<"0x">> \o [i \in 1 .. n |-> ToInt(BitAnd(Shr(value, 4 * (n - i)), LowMask(4)))]

\* the truth value Python gives an Optional[int]
Truthy(opt) == IsSome(opt) /\ TheValue(opt) # {}

\* FaultRecord.to_dict (the message is left out)
FaultRecord_to_dict(f) ==
    [fault_type |-> f.fault_type, stage |-> f.stage, level |-> f.level,
     address |-> FormatHex16(f.address),
     access_type |-> f.access_type,
     FAR_EL1 |-> IF Truthy(f.far_el1) THEN Some(FormatHex16(TheValue(f.far_el1))) ELSE None,
     FAR_EL2 |-> IF Truthy(f.far_el2) THEN Some(FormatHex16(TheValue(f.far_el2))) ELSE None]

\* check_permission with EL0 reads allowed for AP = 01 only
check_permission_El0ReadRw(access_type, ap, uxn, pxn, is_el0) ==
    IF access_type = "EXECUTE" THEN
        (IF is_el0 THEN ~uxn ELSE ~pxn)
    ELSE IF is_el0 THEN
        ap = 1
    ELSE
        (IF access_type = "READ" THEN TRUE ELSE ap \in {0, 1})

check_permission(access_type, ap, uxn, pxn, is_el0) ==
    IF access_type = "EXECUTE" THEN
        (IF is_el0 THEN ~uxn ELSE ~pxn)
    ELSE IF is_el0 THEN
        (IF access_type = "READ" THEN ap \in {1, 3} ELSE ap = 1)
    ELSE
        (IF access_type = "READ" THEN TRUE ELSE ap \in {0, 1})

check_stage2_permission(access_type, s2ap, xn) ==
    IF access_type = "EXECUTE" THEN ~xn
    ELSE IF access_type = "READ" THEN s2ap \in {1, 3}
    ELSE s2ap \in {2, 3}

\* ------------------------------------------------------------ registers.py

\* TTBR.baddr: value & 0x0000FFFFFFFFFFFE
baddr(ttbr_value) == BitAnd(ttbr_value, BitField(47, 1))

va_bits_t0(tcr) == 64 - tcr.t0sz
va_bits_t1(tcr) == 64 - tcr.t1sz

tcr_starting_level(tcr, for_ttbr1) ==
    LET va_bits == IF for_ttbr1 THEN va_bits_t1(tcr) ELSE va_bits_t0(tcr)
    IN IF va_bits >= 40 THEN 0
       ELSE IF va_bits >= 31 THEN 1
       ELSE 2

vtcr_starting_level(vtcr) == vtcr.sl0

\* get_stage1_table_base reading TTBR0_EL1 for every address
get_stage1_table_base_Ttbr0(regs, for_ttbr1) == baddr(regs.ttbr0_el1)

get_stage1_table_base(regs, for_ttbr1) ==
    baddr(IF for_ttbr1 THEN regs.ttbr1_el1 ELSE regs.ttbr0_el1)

get_stage2_table_base(regs) == baddr(regs.vttbr_el2)

\* -------------------------------------------------------------- stage2.py

\* translation_tables.get(address, 0)
read_descriptor(tables, address) ==
    IF address \in DOMAIN tables THEN tables[address] ELSE {}

\* a read that inserts the missing entry it read as 0
store_after_read_Insert(tables, address) ==
    [x \in DOMAIN tables \cup {address} |-> IF x \in DOMAIN tables THEN tables[x] ELSE {}]

\* the store after translation_tables.get(address, 0): the dict is only read
store_after_read(tables, address) == tables

\* One record of the descriptor fetches a walk performs (history only):
\* which store was read, at which level, at which address, and the word read.
Fetch(stage, level, address, value) ==
    [stage |-> stage, level |-> level, address |-> address, value |-> value]

\* the store of stage `stage` after the reads among the fetches
RECURSIVE StoreAfter(_, _, _)
StoreAfter(tables, reads, stage) ==
    IF reads = <<>> THEN tables
    ELSE StoreAfter(IF Head(reads).stage = stage THEN store_after_read(tables, Head(reads).address) ELSE tables, Tail(reads), stage)

\* a stage-2 fault of kind PERMISSION at level `level`
Stage2TranslationFault_Permission(level, ipa) ==
    FaultRecord("PERMISSION_FAULT", 2, level, ipa.value, None, None, Some(ipa.value))

\* the fault of an invalid descriptor at level `level`
Stage2TranslationFault(level, ipa) ==
    FaultRecord("TRANSLATION_FAULT", 2, level, ipa.value, None, None, Some(ipa.value))

\* the fault returned after the level loop ("Should not reach here")
Stage2FallThroughFault(ipa) ==
    FaultRecord("TRANSLATION_FAULT", 2, 3, ipa.value, None, None, None)

Stage2WalkResult(success, ipa, output_pa, events, fault) ==
    [success |-> success, input_ipa |-> ipa, output_pa |-> output_pa,
     events |-> events, fault |-> fault]

\* One iteration of the level loop of Stage2Walker.walk.  Returns the loop
\* variables after the iteration, the walker's event counter, the fetch made,
\* and, when the iteration returned from walk, done and the result.
Stage2Level(tables, ipa, level, current_table_pa, events, counter) ==
    LET Classify(index, descriptor_addr, descriptor_value, event_counter) ==
            LET event == [event_id |-> event_counter, level |-> level,
                          table_base_pa |-> current_table_pa, index |-> index,
                          descriptor_address |-> descriptor_addr,
                          descriptor_value |-> descriptor_value,
                          descriptor_type |-> descriptor_type(descriptor_value, level),
                          output_address |-> {}]
                fetch == Fetch(2, level, descriptor_addr, descriptor_value)
            IN  IF ~is_valid(descriptor_value) THEN
                    [done |-> TRUE,
                     result |-> Stage2WalkResult(FALSE, ipa, None, Append(events, event),
                                    Some(Stage2TranslationFault(level, ipa))),
                     current_table_pa |-> current_table_pa,
                     events |-> Append(events, event),
                     counter |-> event_counter, fetch |-> fetch]
                ELSE IF is_table(descriptor_value, level) THEN
                    LET next == next_table_address(descriptor_value)
                        evs == Append(events, [event EXCEPT !.output_address = next])
                    IN [done |-> FALSE, result |-> None, current_table_pa |-> next,
                        events |-> evs, counter |-> event_counter, fetch |-> fetch]
                ELSE IF is_page(descriptor_value, level)
                        \/ is_block(descriptor_value, level) THEN
                    LET output_base == IF is_block(descriptor_value, level)
                                       THEN block_output_address(descriptor_value, level)
                                       ELSE page_output_address(descriptor_value)
                        final_pa ==
                            IF level = 1 THEN BitOr(output_base, l1_block_offset(ipa))
                            ELSE IF level = 2 THEN BitOr(output_base, l2_block_offset(ipa))
                            ELSE BitOr(output_base, page_offset(ipa))
                        evs == Append(events, [event EXCEPT !.output_address = output_base])
                    IN [done |-> TRUE,
                        result |-> Stage2WalkResult(TRUE, ipa,
                                       Some(PhysicalAddress(final_pa)), evs, None),
                        current_table_pa |-> current_table_pa, events |-> evs,
                        counter |-> event_counter, fetch |-> fetch]
                ELSE
                    \* valid bit set but neither table, block nor page at this
                    \* level: no branch is taken, the event is not appended,
                    \* the loop goes on
                    [done |-> FALSE, result |-> None,
                     current_table_pa |-> current_table_pa, events |-> events,
                     counter |-> event_counter, fetch |-> fetch]
        \* descriptor_value = self._read_descriptor(descriptor_addr)
        Read(index, descriptor_addr) ==
            Classify(index, descriptor_addr, read_descriptor(tables, descriptor_addr),
                     counter + 1)
        \* descriptor_addr = calculate_descriptor_address(current_table_pa, index)
        Locate(index) ==
            Read(index, calculate_descriptor_address(current_table_pa, index, 8))
    IN Locate(get_index(ipa, level))

RECURSIVE Stage2Loop(_, _, _, _, _, _, _)
Stage2Loop(tables, ipa, level, current_table_pa, events, counter, fetches) ==
    LET Continue(st) ==
            IF st.done
            THEN [result |-> st.result, counter |-> st.counter,
                  fetches |-> Append(fetches, st.fetch)]
            ELSE Stage2Loop(tables, ipa, level + 1, st.current_table_pa, st.events,
                            st.counter, Append(fetches, st.fetch))
    IN IF level >= 4 THEN
           \* "Should not reach here with valid tables"
           [result |-> Stage2WalkResult(FALSE, ipa, None, events,
                           Some(Stage2FallThroughFault(ipa))),
            counter |-> counter, fetches |-> fetches]
       ELSE Continue(Stage2Level(tables, ipa, level, current_table_pa, events, counter))

\* Stage2Walker.walk on the walker w = [vttbr_base, starting_level, event_counter]:
\* the result, the walker's event counter afterwards, and the fetches made.
Stage2Walk(w, tables, ipa) ==
    Stage2Loop(tables, ipa, w.starting_level, w.vttbr_base, <<>>, w.event_counter, <<>>)

\* reset_event_counter leaving the counter of the previous walk in place
reset_event_counter_Keep(w) == w

reset_event_counter(w) == [w EXCEPT !.event_counter = 0]
set_event_counter(w, value) == [w EXCEPT !.event_counter = value]

\* -------------------------------------------------------------- stage1.py

Stage1WalkResult(success, va, output_ipa, events, fault, final_permissions) ==
    [success |-> success, input_va |-> va, output_ipa |-> output_ipa,
     events |-> events, fault |-> fault, final_permissions |-> final_permissions]

\* the fault of an invalid descriptor reported as an access flag fault
Stage1TranslationFault_AccessFlag(level, va) ==
    FaultRecord("ACCESS_FLAG_FAULT", 1, level, va.value, None, Some(va.value), None)

Stage1TranslationFault(level, va) ==
    FaultRecord("TRANSLATION_FAULT", 1, level, va.value, None, Some(va.value), None)

\* the permission fault without the faulting address in FAR_EL1
Stage1PermissionFault_NoFar(level, va, access_type) ==
    FaultRecord("PERMISSION_FAULT", 1, level, va.value, Some(access_type), None, None)

Stage1PermissionFault(level, va, access_type) ==
    FaultRecord("PERMISSION_FAULT", 1, level, va.value, Some(access_type),
                Some(va.value), None)

\* the fault returned after the level loop ("Should not reach here")
Stage1FallThroughFault(va) ==
    FaultRecord("TRANSLATION_FAULT", 1, 3, va.value, None, None, None)

\* the stage-1 event recorded when the nested stage-2 walk for the table
\* address failed: no descriptor was read
Stage1NestedFaultEvent(event_id, level, current_table_ipa, index, s2_events) ==
    [event_id |-> event_id, level |-> level, table_base_ipa |-> current_table_ipa,
     table_base_pa |-> {}, index |-> index, descriptor_address_pa |-> {},
     descriptor_value |-> {}, descriptor_type |-> "INVALID", output_address |-> {},
     s2_events |-> s2_events]

\* max(ap_limit, table_desc.ap_table) when ap_table is not 0
accumulate_ap_limit(ap_limit, ap) ==
    IF ap # 0 THEN (IF ap > ap_limit THEN ap ELSE ap_limit) ELSE ap_limit

\* the leaf AP narrowed by the limit of the table descriptors
combine_ap_Limited(ap, ap_limit) == IF ap_limit > ap THEN ap_limit ELSE ap

\* final_ap = data_desc.ap: the accumulated ap_limit is not applied
combine_ap(ap, ap_limit) == ap

\* One iteration of the level loop of Stage1Walker.walk from the return of
\* the nested stage-2 walk on: s2_walk is what that walk gave (its result, the
\* stage-2 walker's event counter, its fetches).  st holds the loop variables
\* [level, current_table_ipa, events, uxn_limit, pxn_limit, ap_limit] and the
\* stage-1 walker's event counter; w2 is the shared stage-2 walker.
Stage1AfterStage2(s1_tabs, w2, va, access_type, is_el0, st, s2_walk) ==
    LET level == st.level
        event_counter == st.counter + 1
        Classify(index, s2, descriptor_pa, descriptor_value) ==
            LET s2_result == s2.result
                w2_after == set_event_counter(w2, s2.counter)
                table_pa == TheValue(s2_result.output_pa).value
                event == [event_id |-> event_counter, level |-> level,
                          table_base_ipa |-> st.current_table_ipa,
                          table_base_pa |-> table_pa, index |-> index,
                          descriptor_address_pa |-> descriptor_pa,
                          descriptor_value |-> descriptor_value,
                          descriptor_type |-> descriptor_type(descriptor_value, level),
                          output_address |-> {}, s2_events |-> s2_result.events]
                fetches == Append(s2.fetches,
                                  Fetch(1, level, descriptor_pa, descriptor_value))
            IN  IF ~is_valid(descriptor_value) THEN
                    LET evs == Append(st.events, event)
                    IN [done |-> TRUE,
                        result |-> Stage1WalkResult(FALSE, va, None, evs,
                                      Some(Stage1TranslationFault(level, va)), None),
                        st |-> [st EXCEPT !.events = evs, !.counter = event_counter],
                        w2 |-> w2_after, fetches |-> fetches]
                ELSE IF is_table(descriptor_value, level) THEN
                    LET next == next_table_address(descriptor_value)
                        evs == Append(st.events, [event EXCEPT !.output_address = next])
                    IN [done |-> FALSE, result |-> None,
                        st |-> [level |-> level, current_table_ipa |-> next,
                                events |-> evs,
                                uxn_limit |-> st.uxn_limit \/ uxn_table(descriptor_value),
                                pxn_limit |-> st.pxn_limit \/ pxn_table(descriptor_value),
                                ap_limit |-> accumulate_ap_limit(st.ap_limit,
                                                 ap_table(descriptor_value)),
                                counter |-> event_counter],
                        w2 |-> w2_after, fetches |-> fetches]
                ELSE IF is_page(descriptor_value, level)
                        \/ is_block(descriptor_value, level) THEN
                    LET output_base == IF is_block(descriptor_value, level)
                                       THEN block_output_address(descriptor_value, level)
                                       ELSE page_output_address(descriptor_value)
                        final_ipa ==
                            IF level = 1 THEN BitOr(output_base, l1_block_offset(va))
                            ELSE IF level = 2 THEN BitOr(output_base, l2_block_offset(va))
                            ELSE BitOr(output_base, page_offset(va))
                        final_uxn == desc_uxn(descriptor_value) \/ st.uxn_limit
                        final_pxn == desc_pxn(descriptor_value) \/ st.pxn_limit
                        final_ap == combine_ap(desc_ap(descriptor_value), st.ap_limit)
                    IN  IF ~check_permission(access_type, final_ap, final_uxn,
                                             final_pxn, is_el0) THEN
                            LET evs == Append(st.events, event)
                            IN [done |-> TRUE,
                                result |-> Stage1WalkResult(FALSE, va, None, evs,
                                    Some(Stage1PermissionFault(level, va, access_type)),
                                    None),
                                st |-> [st EXCEPT !.events = evs,
                                                  !.counter = event_counter],
                                w2 |-> w2_after, fetches |-> fetches]
                        ELSE
                            LET evs == Append(st.events,
                                         [event EXCEPT !.output_address = output_base])
                            IN [done |-> TRUE,
                                result |-> Stage1WalkResult(TRUE, va,
                                    Some(IntermediatePhysicalAddress(final_ipa)), evs,
                                    None,
                                    Some(from_ap_bits(final_ap, final_uxn, final_pxn))),
                                st |-> [st EXCEPT !.events = evs,
                                                  !.counter = event_counter],
                                w2 |-> w2_after, fetches |-> fetches]
                ELSE
                    \* valid bit set but neither table, block nor page at this
                    \* level: the event is dropped and the loop goes on
                    [done |-> FALSE, result |-> None,
                     st |-> [st EXCEPT !.counter = event_counter],
                     w2 |-> w2_after, fetches |-> fetches]
        \* descriptor_value = self._read_descriptor(descriptor_pa)
        Read(index, s2, descriptor_pa) ==
            Classify(index, s2, descriptor_pa, read_descriptor(s1_tabs, descriptor_pa))
        \* after s2_result = self.stage2_walker.walk(table_ipa)
        Nested(index, s2) ==
            IF ~s2.result.success THEN
                LET event == Stage1NestedFaultEvent(event_counter, level,
                                  st.current_table_ipa, index, s2.result.events)
                    evs == Append(st.events, event)
                IN [done |-> TRUE,
                    result |-> Stage1WalkResult(FALSE, va, None, evs, s2.result.fault,
                                                None),
                    st |-> [st EXCEPT !.events = evs, !.counter = event_counter],
                    w2 |-> set_event_counter(w2, s2.counter), fetches |-> s2.fetches]
            ELSE Read(index, s2,
                      calculate_descriptor_address(TheValue(s2.result.output_pa).value,
                                                   index, 8))
    IN Nested(get_index(va, level), s2_walk)

\* One iteration of the level loop of Stage1Walker.walk: the nested stage-2
\* walk of the table's IPA, then the rest of the iteration.
Stage1Level(s1_tabs, s2_tabs, w2, va, access_type, is_el0, st) ==
    Stage1AfterStage2(s1_tabs, w2, va, access_type, is_el0, st,
        Stage2Walk(w2, s2_tabs, IntermediatePhysicalAddress(st.current_table_ipa)))

RECURSIVE Stage1Loop(_, _, _, _, _, _, _, _)
Stage1Loop(s1_tabs, s2_tabs, w2, va, access_type, is_el0, st, fetches) ==
    LET Continue(r) ==
            IF r.done
            THEN [result |-> r.result, counter |-> r.st.counter, w2 |-> r.w2,
                  fetches |-> fetches \o r.fetches]
            ELSE Stage1Loop(s1_tabs, s2_tabs, r.w2, va, access_type, is_el0,
                            [r.st EXCEPT !.level = st.level + 1],
                            fetches \o r.fetches)
    IN IF st.level >= 4 THEN
           \* "Should not reach here"
           [result |-> Stage1WalkResult(FALSE, va, None, st.events,
                           Some(Stage1FallThroughFault(va)), None),
            counter |-> st.counter, w2 |-> w2, fetches |-> fetches]
       ELSE Continue(Stage1Level(s1_tabs, s2_tabs, w2, va, access_type, is_el0, st))

\* Stage1Walker.walk on the stage-1 walker w1 = [ttbr_base, starting_level,
\* event_counter] and the stage-2 walker w2 it was given.
Stage1Walk(w1, w2, s1_tabs, s2_tabs, va, access_type, is_el0) ==
    Stage1Loop(s1_tabs, s2_tabs, w2, va, access_type, is_el0,
               [level |-> w1.starting_level, current_table_ipa |-> w1.ttbr_base,
                events |-> <<>>, uxn_limit |-> FALSE, pxn_limit |-> FALSE,
                ap_limit |-> 0, counter |-> w1.event_counter],
               <<>>)

\* -------------------------------------------------------------- walker.py

WalkEvent(event_id, stage, level, purpose, address, descriptor_value, result, output) ==
    [event_id |-> event_id, event_type |-> "T", stage |-> stage, level |-> level,
     purpose |-> purpose, address |-> address, descriptor_value |-> descriptor_value,
     result |-> result, output |-> output]

\* The flattening loops carry acc = [events, event_counter], the two locals
\* of PageTableWalker.walk.

\* the inner loop: the stage-2 events of one stage-1 event
RECURSIVE FlattenNested(_, _, _)
FlattenNested(s1_event, s2_events, acc) ==
    IF s2_events = <<>> THEN acc
    ELSE LET s2_event == Head(s2_events)
             event_counter == acc.event_counter + 1
         IN FlattenNested(s1_event, Tail(s2_events),
                [events |-> Append(acc.events,
                    WalkEvent(event_counter, 2, s2_event.level,
                              <<"S2 for S1 L", s1_event.level, " table @ IPA 0x",
                                s1_event.table_base_ipa>>,
                              s2_event.descriptor_address, s2_event.descriptor_value,
                              s2_event.descriptor_type, s2_event.output_address)),
                 event_counter |-> event_counter])

\* the stage-1 event appended after its nested events, numbered event_counter
Stage1FlatEvent(s1_event, event_counter) ==
    WalkEvent(event_counter, 1, s1_event.level, <<"S1 L", s1_event.level, " lookup">>,
              s1_event.descriptor_address_pa, s1_event.descriptor_value,
              s1_event.descriptor_type, s1_event.output_address)

\* FlattenOne with the stage-1 event taking the event id of the last nested
\* event (the counter is not advanced for it)
FlattenOne_NoIncrement(s1_event, acc) ==
    LET Then(nested) ==
            [events |-> Append(nested.events,
                               Stage1FlatEvent(s1_event, nested.event_counter)),
             event_counter |-> nested.event_counter]
    IN Then(FlattenNested(s1_event, s1_event.s2_events, acc))

\* FlattenOne with the stage-1 event emitted before its nested stage-2 events
FlattenOne_Stage1First(s1_event, acc) ==
    FlattenNested(s1_event, s1_event.s2_events,
        [events |-> Append(acc.events, Stage1FlatEvent(s1_event, acc.event_counter + 1)),
         event_counter |-> acc.event_counter + 1])

\* FlattenOne with every nested stage-2 event emitted twice
FlattenOne_NestedTwice(s1_event, acc) ==
    LET Then(nested) ==
            [events |-> Append(nested.events,
                               Stage1FlatEvent(s1_event, nested.event_counter + 1)),
             event_counter |-> nested.event_counter + 1]
    IN Then(FlattenNested(s1_event, s1_event.s2_events \o s1_event.s2_events, acc))

\* one iteration of the outer loop: the nested stage-2 events first, then
\* the stage-1 event itself
FlattenOne(s1_event, acc) ==
    LET Then(nested) ==
            [events |-> Append(nested.events,
                               Stage1FlatEvent(s1_event, nested.event_counter + 1)),
             event_counter |-> nested.event_counter + 1]
    IN Then(FlattenNested(s1_event, s1_event.s2_events, acc))

RECURSIVE FlattenStage1(_, _)
FlattenStage1(s1_events, acc) ==
    IF s1_events = <<>> THEN acc
    ELSE FlattenStage1(Tail(s1_events), FlattenOne(Head(s1_events), acc))

\* the loop over the events of the final stage-2 walk
RECURSIVE FlattenFinal(_, _, _)
FlattenFinal(s2_events, ipa, acc) ==
    IF s2_events = <<>> THEN acc
    ELSE LET s2_event == Head(s2_events)
             event_counter == acc.event_counter + 1
         IN FlattenFinal(Tail(s2_events), ipa,
                [events |-> Append(acc.events,
                    WalkEvent(event_counter, 2, s2_event.level,
                              <<"Final S2 L", s2_event.level, " for IPA 0x", ipa.value>>,
                              s2_event.descriptor_address, s2_event.descriptor_value,
                              s2_event.descriptor_type, s2_event.output_address)),
                 event_counter |-> event_counter])

\* the result built without its final permissions
WalkResult_NoPermissions(status, va, output_pa, ipa, events, s1_result, s2_final_result, total_memory_accesses, fault, final_permissions, register_snapshots) ==
    [status |-> status, input_va |-> va, output_pa |-> output_pa, ipa |-> ipa,
     events |-> events, s1_result |-> s1_result, s2_final_result |-> s2_final_result,
     total_memory_accesses |-> total_memory_accesses, fault |-> fault,
     final_permissions |-> None, register_snapshots |-> register_snapshots]

WalkResult(status, va, output_pa, ipa, events, s1_result, s2_final_result, total_memory_accesses, fault, final_permissions, register_snapshots) ==
    [status |-> status, input_va |-> va, output_pa |-> output_pa, ipa |-> ipa,
     events |-> events, s1_result |-> s1_result, s2_final_result |-> s2_final_result,
     total_memory_accesses |-> total_memory_accesses, fault |-> fault,
     final_permissions |-> final_permissions, register_snapshots |-> register_snapshots]

\* the status given to a walk whose stage-1 walk failed
Stage1FailureStatus(s1_result) == "S1_FAULT"

\* PageTableWalker.__init__: the stage-2 walker of the instance
NewStage2Walker(regs) ==
    [vttbr_base |-> get_stage2_table_base(regs),
     starting_level |-> vtcr_starting_level(regs.vtcr_el2),
     event_counter |-> 0]

\* the first snapshot taken with the IPA already filled in
SnapStart_WithIpa(regs, va) ==
    [point |-> "start", VA |-> Some(va.value), IPA |-> Some(va.value), PA |-> None,
     TTBR0_EL1 |-> regs.ttbr0_el1, TTBR1_EL1 |-> regs.ttbr1_el1,
     VTTBR_EL2 |-> regs.vttbr_el2]

\* the first register snapshot of PageTableWalker.walk
SnapStart(regs, va) ==
    [point |-> "start", VA |-> Some(va.value), IPA |-> None, PA |-> None,
     TTBR0_EL1 |-> regs.ttbr0_el1, TTBR1_EL1 |-> regs.ttbr1_el1,
     VTTBR_EL2 |-> regs.vttbr_el2]

\* the return of PageTableWalker.walk when the stage-1 walk s1 failed
WalkStage1Fault(regs, va, s1, flat1) ==
    [result |-> WalkResult(Stage1FailureStatus(s1.result), va, None, None,
                           flat1.events, Some(s1.result), None,
                           flat1.event_counter, s1.result.fault, None,
                           <<SnapStart(regs, va)>>),
     w2 |-> s1.w2, fetches |-> s1.fetches]

\* the return of PageTableWalker.walk after the final stage-2 walk s2 and the
\* flattening of its events
WalkFinal(regs, va, s1, s2, flat2) ==
    LET snap_start == SnapStart(regs, va)
        s1_result == s1.result
        s2_result == s2.result
        ipa == TheValue(s1_result.output_ipa)
        snap_s1 == [point |-> "after_s1", VA |-> Some(va.value),
                    IPA |-> Some(ipa.value), PA |-> None]
        w2_after == set_event_counter(s1.w2, s2.counter)
        fetches == s1.fetches \o s2.fetches
    IN  IF ~s2_result.success THEN
            [result |-> WalkResult("S2_FINAL_FAULT", va, None, Some(ipa),
                           flat2.events, Some(s1_result), Some(s2_result),
                           flat2.event_counter, s2_result.fault,
                           s1_result.final_permissions, <<snap_start, snap_s1>>),
             w2 |-> w2_after, fetches |-> fetches]
        ELSE
            LET pa == TheValue(s2_result.output_pa)
                snap_done == [point |-> "complete", VA |-> Some(va.value),
                              IPA |-> Some(ipa.value), PA |-> Some(pa.value)]
            IN [result |-> WalkResult("SUCCESS", va, Some(pa), Some(ipa),
                           flat2.events, Some(s1_result), Some(s2_result),
                           flat2.event_counter, None,
                           s1_result.final_permissions,
                           <<snap_start, snap_s1, snap_done>>),
                w2 |-> w2_after, fetches |-> fetches]

\* PageTableWalker.walk: the result, the instance's stage-2 walker afterwards
\* and the descriptor fetches made.
PageTableWalk(regs, s1_tabs, s2_tabs, w2_in, va, access_type, is_el0) ==
    LET \* s2_result = self.stage2_walker.walk(s1_result.output_ipa)
        FinalWalk(s1, flat1, s2) ==
            WalkFinal(regs, va, s1, s2, FlattenFinal(s2.result.events,
                                       TheValue(s1.result.output_ipa), flat1))
        \* after the stage-1 walk s1 and the flattening of its events
        Stage1Done(s1, flat1) ==
            IF ~s1.result.success THEN WalkStage1Fault(regs, va, s1, flat1)
            ELSE FinalWalk(s1, flat1,
                     Stage2Walk(set_event_counter(s1.w2, flat1.event_counter), s2_tabs,
                                TheValue(s1.result.output_ipa)))
        \* the flattening loop over s1_result.events
        Flatten(s1) ==
            Stage1Done(s1, FlattenStage1(s1.result.events,
                                         [events |-> <<>>, event_counter |-> 0]))
        \* stage1_walker = Stage1Walker(...); both counters reset
        Start(for_ttbr1) ==
            Flatten(Stage1Walk(
                reset_event_counter(
                    [ttbr_base |-> get_stage1_table_base(regs, for_ttbr1),
                     starting_level |-> tcr_starting_level(regs.tcr_el1, for_ttbr1),
                     event_counter |-> 0]),
                reset_event_counter(w2_in), s1_tabs, s2_tabs, va, access_type, is_el0))
    IN Start(uses_ttbr1(va))

\* ------------------------------------------------- descriptor builders

build_table_descriptor(next_table) == BitOr(BitAnd(next_table, BitField(47, 12)), ToBits(3))

\* build_page_descriptor with sh = INNER_SHAREABLE and attr_index = 0
build_page_descriptor(output_address, ap, uxn, pxn, af) ==
    BitAnd(output_address, BitField(47, 12))
        \cup (IF uxn THEN {54} ELSE {}) \cup (IF pxn THEN {53} ELSE {})
        \cup (IF af THEN {10} ELSE {}) \cup Shl(ToBits(3), 8)
        \cup Shl(ToBits(ap % 4), 6) \cup ToBits(3)

\* ---------------------------------------------------- the checked instances

MaxWalks == 3

VARIABLES
    register_state,   \* PageTableWalker.register_state
    s1_tables,        \* PageTableWalker.s1_tables: address -> descriptor value
    s2_tables,        \* PageTableWalker.s2_tables
    stage2_walker,    \* PageTableWalker.stage2_walker, with its event_counter
    last_call,        \* the arguments of the latest walk, or None
    last_result,      \* the WalkResult it returned, or None
    first_call,       \* the arguments of the first walk on this instance
    first_result,     \* the WalkResult of the first walk
    fetches,          \* the descriptor fetches of the latest walk, in order
    nwalks,           \* walks made on this instance
    other_va_walked,  \* a walk of another VA than the first walk's was made
    perm_in,          \* arguments of a check_permission call
    perm_out,         \* its return value, or None
    pure_in,          \* arguments of a call of a pure function of models/
    pure_out,         \* what it returned, or None
    par_walkers,      \* the stage-2 walkers of the instances walking in parallel
    par_procs         \* the walks in progress on them: position and locals

vars == <<register_state, s1_tables, s2_tables, stage2_walker, last_call, last_result,
          first_call, first_result, fetches, nwalks, other_va_walked, perm_in,
          perm_out, pure_in, pure_out, par_walkers, par_procs>>

\* RegisterState.default()
DefaultRegisters ==
    [ttbr0_el1 |-> Hex(<<4,0,0,0,0,0,0,0>>), ttbr1_el1 |-> Hex(<<8,0,0,0,0,0,0,0>>),
     vttbr_el2 |-> Hex(<<1,0,0,0,0,0,0,0,0>>),
     tcr_el1 |-> [t0sz |-> 16, t1sz |-> 16, ips |-> 5],
     vtcr_el2 |-> [t0sz |-> 16, sl0 |-> 0, ps |-> 5]]

\* the store build_translation_tables makes of the <<address, value>> entries
\* of a configuration, assigned in order: of two entries with one address
\* the later one stays
StoreOf(entries) ==
    [a \in {entries[i][1] : i \in 1 .. Len(entries)} |->
        LET last == CHOOSE i \in 1 .. Len(entries) :
                        /\ entries[i][1] = a
                        /\ \A j \in 1 .. Len(entries) : entries[j][1] = a => j <= i
        IN entries[last][2]]

\* the store with the entry at address a set to v
Override(tabs, a, v) ==
    [x \in DOMAIN tabs \cup {a} |-> IF x = a THEN v ELSE tabs[x]]

\* Stage-1 tables (addressed by PA; stage 2 maps their IPAs to the same PAs).
\* TTBR0 half: L0 0x40000000 -> L1 0x40001000 -> L2 0x40002000 -> L3 0x40003000,
\* whose entry 1 is a page at IPA 0x50000000.  TTBR1 half: L0 0x80000000,
\* whose entry 0x1FF points to L1 0x80001000, whose entry 0 is a 1 GB block
\* at IPA 0xC0000000.
Stage1Leaf == Hex(<<4,0,0,0,3,0,0,8>>)
Stage1Base == StoreOf(<<
    <<Hex(<<4,0,0,0,0,0,0,0>>), build_table_descriptor(Hex(<<4,0,0,0,1,0,0,0>>))>>,
    <<Hex(<<4,0,0,0,1,0,0,8>>), build_table_descriptor(Hex(<<4,0,0,0,2,0,0,0>>))>>,
    <<Hex(<<4,0,0,0,2,0,0,8>>), build_table_descriptor(Hex(<<4,0,0,0,3,0,0,0>>))>>,
    <<Stage1Leaf, build_page_descriptor(Hex(<<5,0,0,0,0,0,0,0>>), 1, FALSE, FALSE, TRUE)>>,
    <<Hex(<<8,0,0,0,0,15,15,8>>), build_table_descriptor(Hex(<<8,0,0,0,1,0,0,0>>))>>,
    <<Hex(<<8,0,0,0,1,0,0,0>>),
      build_page_descriptor(Hex(<<12,0,0,0,0,0,0,0>>), 1, FALSE, FALSE, TRUE) \ {1}>> >>)

\* Stage-2 tables rooted at VTTBR 0x100000000: L0 entry 0 -> L1 0x100001000;
\* L1 entry 1 -> L2 0x100002000, L1 entry 2 a 1 GB identity block for
\* 0x80000000; L2 entry 0 -> L3 0x100003000 with identity pages for
\* 0x40000000..0x40003000; L2 entry 0x80 -> L3 0x100004000 with an identity
\* page for 0x50000000.  IPA 0xC0000000 (L1 entry 3) is not mapped.
Stage2Base == StoreOf(<<
    <<Hex(<<1,0,0,0,0,0,0,0,0>>), build_table_descriptor(Hex(<<1,0,0,0,0,1,0,0,0>>))>>,
    <<Hex(<<1,0,0,0,0,1,0,0,8>>), build_table_descriptor(Hex(<<1,0,0,0,0,2,0,0,0>>))>>,
    <<Hex(<<1,0,0,0,0,1,0,1,0>>),
      build_page_descriptor(Hex(<<8,0,0,0,0,0,0,0>>), 3, FALSE, FALSE, TRUE) \ {1}>>,
    <<Hex(<<1,0,0,0,0,2,0,0,0>>), build_table_descriptor(Hex(<<1,0,0,0,0,3,0,0,0>>))>>,
    <<Hex(<<1,0,0,0,0,3,0,0,0>>),
      build_page_descriptor(Hex(<<4,0,0,0,0,0,0,0>>), 3, FALSE, FALSE, TRUE)>>,
    <<Hex(<<1,0,0,0,0,3,0,0,8>>),
      build_page_descriptor(Hex(<<4,0,0,0,1,0,0,0>>), 3, FALSE, FALSE, TRUE)>>,
    <<Hex(<<1,0,0,0,0,3,0,1,0>>),
      build_page_descriptor(Hex(<<4,0,0,0,2,0,0,0>>), 3, FALSE, FALSE, TRUE)>>,
    <<Hex(<<1,0,0,0,0,3,0,1,8>>),
      build_page_descriptor(Hex(<<4,0,0,0,3,0,0,0>>), 3, FALSE, FALSE, TRUE)>>,
    <<Hex(<<1,0,0,0,0,2,4,0,0>>), build_table_descriptor(Hex(<<1,0,0,0,0,4,0,0,0>>))>>,
    <<Hex(<<1,0,0,0,0,4,0,0,0>>),
      build_page_descriptor(Hex(<<5,0,0,0,0,0,0,0>>), 3, FALSE, FALSE, TRUE)>> >>)

\* The stores a scenario file can hold are arbitrary; the instances checked
\* are the base stores with at most one entry replaced: by 0 (the entry reads
\* as missing), by the same word with bit 1 cleared (bits[1:0] = 01: a block
\* at level 1 or 2, no legal type at level 0 or 3), and, for the stage-1
\* leaf, by pages with the other AP values and with UXN or PXN set.
Stage1Stores ==
    {Stage1Base}
    \cup {Override(Stage1Base, a, {}) : a \in DOMAIN Stage1Base}
    \cup {Override(Stage1Base, a, Stage1Base[a] \ {1}) : a \in DOMAIN Stage1Base}
    \cup {Override(Stage1Base, Stage1Leaf,
                   build_page_descriptor(Hex(<<5,0,0,0,0,0,0,0>>), ap, FALSE, FALSE, TRUE))
          : ap \in {0, 2, 3}}
    \cup {Override(Stage1Base, Stage1Leaf,
                   build_page_descriptor(Hex(<<5,0,0,0,0,0,0,0>>), 1, x = 1, x = 2, FALSE))
          : x \in {1, 2}}
    \cup {Override(Stage1Base, Hex(<<4,0,0,0,1,0,0,8>>),
                   Stage1Base[Hex(<<4,0,0,0,1,0,0,8>>)] \cup {59, 60})}
    \cup {Override(Stage1Base, Hex(<<4,0,0,0,0,0,0,0>>),
                   Stage1Base[Hex(<<4,0,0,0,0,0,0,0>>)] \cup {60})}
    \cup {Override(Stage1Base, Hex(<<4,0,0,0,2,0,0,8>>),
                   Stage1Base[Hex(<<4,0,0,0,2,0,0,8>>)] \cup {59})}
    \cup {Override(Stage1Base, Hex(<<4,0,0,0,0,0,0,0>>),
                   Stage1Base[Hex(<<4,0,0,0,0,0,0,0>>)] \cup {61, 62})}

Stage2Stores ==
    {Stage2Base}
    \cup {Override(Stage2Base, a, {}) : a \in DOMAIN Stage2Base}
    \cup {Override(Stage2Base, a, Stage2Base[a] \ {1}) : a \in DOMAIN Stage2Base}
    \cup {Override(Stage2Base, Hex(<<1,0,0,0,0,1,0,1,8>>),
            build_page_descriptor(Hex(<<12,0,0,0,0,0,0,0>>), 3, FALSE, FALSE, TRUE) \ {1})}
    \cup {Override(Stage2Base, a, (Stage2Base[a] \ {6, 7}) \cup {54})
          : a \in {Hex(<<1,0,0,0,0,3,0,0,8>>), Hex(<<1,0,0,0,0,4,0,0,0>>)}}

\* register states: the default, and the default with other T0SZ / SL0
\* (VA sizes 48, 40, 39, 31 and 30 bits) or with IPS = PS = PA_32_BITS (every
\* table and output address of the base stores is above 2^30, the stage-2
\* tables above 2^32)
RegisterStates ==
    {[DefaultRegisters EXCEPT !.tcr_el1.t0sz = t, !.vtcr_el2.sl0 = l]
        : t \in {16, 24, 25, 33, 34}, l \in {0, 1, 2}}
    \cup {[DefaultRegisters EXCEPT !.tcr_el1.ips = 0, !.vtcr_el2.ps = 0]}

\* Stores whose TABLE descriptors form cycles.  Stage 1: the level-0 table
\* 0x40000000 points to itself in entries 0 and 1; the level-1 table
\* 0x40001000 points back to the level-0 table, whose entry 1 points to the
\* level-1 table again.  Stage 2: the level-0 table 0x100000000 points to
\* itself in entries 0 and 1, and the stage-1 store read through it holds
\* TABLE descriptors only.
Stage1SelfLoop == StoreOf(<<
    <<Hex(<<4,0,0,0,0,0,0,0>>), build_table_descriptor(Hex(<<4,0,0,0,0,0,0,0>>))>>,
    <<Hex(<<4,0,0,0,0,0,0,8>>), build_table_descriptor(Hex(<<4,0,0,0,0,0,0,0>>))>> >>)
Stage1AncestorLoop == StoreOf(<<
    <<Hex(<<4,0,0,0,0,0,0,0>>), build_table_descriptor(Hex(<<4,0,0,0,1,0,0,0>>))>>,
    <<Hex(<<4,0,0,0,0,0,0,8>>), build_table_descriptor(Hex(<<4,0,0,0,1,0,0,0>>))>>,
    <<Hex(<<4,0,0,0,1,0,0,8>>), build_table_descriptor(Hex(<<4,0,0,0,0,0,0,0>>))>> >>)
Stage2SelfLoop == StoreOf(<<
    <<Hex(<<1,0,0,0,0,0,0,0,0>>), build_table_descriptor(Hex(<<1,0,0,0,0,0,0,0,0>>))>>,
    <<Hex(<<1,0,0,0,0,0,0,0,8>>), build_table_descriptor(Hex(<<1,0,0,0,0,0,0,0,0>>))>> >>)
Stage1AllTables == StoreOf(<<
    <<Hex(<<1,0,0,0,0,0,0,0,0>>), build_table_descriptor(Hex(<<4,0,0,0,0,0,0,0>>))>>,
    <<Hex(<<1,0,0,0,0,0,0,0,8>>), build_table_descriptor(Hex(<<4,0,0,0,0,0,0,0>>))>> >>)

CyclicInstances ==
    {<<DefaultRegisters, Stage1SelfLoop, Stage2Base>>,
     <<DefaultRegisters, Stage1AncestorLoop, Stage2Base>>,
     <<DefaultRegisters, Stage1Base, Stage2SelfLoop>>,
     <<DefaultRegisters, Stage1AllTables, Stage2SelfLoop>>}

\* the instances: one store or the registers differ from the base, one
\* with PS = PA_32_BITS whose final stage-2 leaf, with AF = 0, gives a PA
\* above 2^32, and the instances with cyclic tables
Instances ==
    {<<DefaultRegisters, t1, Stage2Base>> : t1 \in Stage1Stores}
    \cup {<<DefaultRegisters, Stage1Base, t2>> : t2 \in Stage2Stores}
    \cup {<<r, Stage1Base, Stage2Base>> : r \in RegisterStates}
    \cup {<<[DefaultRegisters EXCEPT !.tcr_el1.ips = 0, !.vtcr_el2.ps = 0], Stage1Base,
            Override(Stage2Base, Hex(<<1,0,0,0,0,4,0,0,0>>),
                build_page_descriptor(Hex(<<9,0,0,0,0,0,0,0,0>>), 3, FALSE, FALSE, FALSE))>>}
    \cup CyclicInstances

\* 0x0000000040201030 (TTBR0 half), 0xFFFFFF8000001000 (TTBR1 half) and 0
LowVA == VirtualAddress(Hex(<<4,0,2,0,1,0,3,0>>), 48, 4)
HighVA == VirtualAddress(BitField(63, 39) \cup {12}, 48, 4)
ZeroVA == VirtualAddress({}, 48, 4)

\* the walks requested: every access type from both exception levels on the
\* TTBR0 address, an EL0 read and an EL1 write on the TTBR1 address, an EL1
\* read of address 0
Calls ==
    [va : {LowVA}, access_type : AccessTypes, is_el0 : BOOLEAN]
    \cup {[va |-> HighVA, access_type |-> "READ", is_el0 |-> TRUE],
          [va |-> HighVA, access_type |-> "WRITE", is_el0 |-> FALSE],
          [va |-> ZeroVA, access_type |-> "READ", is_el0 |-> FALSE]}

NoPermCall == [access_type |-> "READ", ap |-> 0, uxn |-> FALSE, pxn |-> FALSE,
               is_el0 |-> FALSE]

Init ==
    /\ \E i \in Instances :
        /\ register_state = i[1]
        /\ s1_tables = i[2]
        /\ s2_tables = i[3]
        /\ stage2_walker = NewStage2Walker(i[1])
    /\ last_call = None
    /\ last_result = None
    /\ first_call = None
    /\ first_result = None
    /\ fetches = <<>>
    /\ nwalks = 0
    /\ other_va_walked = FALSE
    /\ perm_in = NoPermCall
    /\ perm_out = None
    /\ pure_in = None
    /\ pure_out = None
    /\ par_walkers = <<>>
    /\ par_procs = <<>>

\* walker.walk(va, access_type, is_el0)
Walk(call) ==
    /\ nwalks < MaxWalks
    /\ \E w \in {PageTableWalk(register_state, s1_tables, s2_tables, stage2_walker,
                               call.va, call.access_type, call.is_el0)} :
          /\ stage2_walker' = w.w2
          /\ last_call' = Some(call)
          /\ last_result' = Some(w.result)
          /\ first_call' = IF nwalks = 0 THEN Some(call) ELSE first_call
          /\ first_result' = IF nwalks = 0 THEN Some(w.result) ELSE first_result
          /\ fetches' = w.fetches
          /\ s1_tables' = StoreAfter(s1_tables, w.fetches, 1)
          /\ s2_tables' = StoreAfter(s2_tables, w.fetches, 2)
    /\ nwalks' = nwalks + 1
    /\ other_va_walked' = (other_va_walked
                            \/ (nwalks > 0 /\ call.va # TheValue(first_call).va))
    /\ UNCHANGED <<register_state, perm_in, perm_out, pure_in, pure_out, par_walkers,
                   par_procs>>

Next == \E call \in Calls : Walk(call)

Spec == Init /\ [][Next]_vars

\* check_permission(access_type, ap, uxn, pxn, is_el0) called on its own
PermCalls ==
    [access_type : AccessTypes, ap : 0 .. 3, uxn : BOOLEAN, pxn : BOOLEAN,
     is_el0 : BOOLEAN]

InitPerm ==
    /\ register_state = DefaultRegisters
    /\ s1_tables = Stage1Base
    /\ s2_tables = Stage2Base
    /\ stage2_walker = NewStage2Walker(DefaultRegisters)
    /\ last_call = None
    /\ last_result = None
    /\ first_call = None
    /\ first_result = None
    /\ fetches = <<>>
    /\ nwalks = 0
    /\ other_va_walked = FALSE
    /\ perm_in \in PermCalls
    /\ perm_out = None
    /\ pure_in = None
    /\ pure_out = None
    /\ par_walkers = <<>>
    /\ par_procs = <<>>

CheckPermission ==
    /\ perm_out = None
    /\ perm_out' = Some(check_permission(perm_in.access_type, perm_in.ap, perm_in.uxn,
                                         perm_in.pxn, perm_in.is_el0))
    /\ UNCHANGED <<register_state, s1_tables, s2_tables, stage2_walker, last_call,
                   last_result, first_call, first_result, fetches, nwalks,
                   other_va_walked, perm_in, pure_in, pure_out, par_walkers,
                   par_procs>>

SpecPerm == InitPerm /\ [][CheckPermission]_vars

\* no walker is in use: the state of the specifications of the pure functions
NoWalk ==
    /\ register_state = DefaultRegisters
    /\ s1_tables = Stage1Base
    /\ s2_tables = Stage2Base
    /\ stage2_walker = NewStage2Walker(DefaultRegisters)
    /\ last_call = None
    /\ last_result = None
    /\ first_call = None
    /\ first_result = None
    /\ fetches = <<>>
    /\ nwalks = 0
    /\ other_va_walked = FALSE
    /\ perm_in = NoPermCall
    /\ perm_out = None
    /\ par_walkers = <<>>
    /\ par_procs = <<>>

walk_vars == <<register_state, s1_tables, s2_tables, stage2_walker, last_call, last_result, first_call, first_result, fetches, nwalks, other_va_walked, perm_in, perm_out>>
par_vars == <<par_walkers, par_procs>>

\* Descriptor(value, level): the classification properties read on their own
DescriptorInputs == [value : SUBSET {0, 1, 2, 12, 63}, level : 0 .. 3]

InitDescriptor ==
    /\ NoWalk
    /\ pure_in \in {Some(d) : d \in DescriptorInputs}
    /\ pure_out = None

Classify ==
    /\ pure_out = None
    /\ \E d \in {TheValue(pure_in)} :
          pure_out' = Some([is_valid |-> is_valid(d.value),
                            is_table |-> is_table(d.value, d.level),
                            is_block |-> is_block(d.value, d.level),
                            is_page |-> is_page(d.value, d.level),
                            descriptor_type |-> descriptor_type(d.value, d.level)])
    /\ UNCHANGED <<walk_vars, par_vars, pure_in>>

SpecDescriptor == InitDescriptor /\ [][Classify]_vars

\* calculate_index and calculate_page_offset on their own: the 4 KB granule,
\* and the 64 KB granule whose min_level is 1
IndexAddresses == SUBSET {0, 11, 12, 20, 21, 29, 30, 38, 39, 47, 48, 63}
IndexLevels == (0 - 1) .. 4

InitIndex ==
    /\ NoWalk
    /\ pure_in \in {Some(a) : a \in IndexAddresses}
    /\ pure_out = None

Decompose ==
    /\ pure_out = None
    /\ \E a \in {TheValue(pure_in)} :
          pure_out' = Some([index |-> [l \in IndexLevels |-> calculate_index(a, l, get_granule_config(4))],
                            index_64kb |-> [l \in IndexLevels |-> calculate_index(a, l, get_granule_config(64))],
                            page_offset |-> calculate_page_offset(a, get_granule_config(4))])
    /\ UNCHANGED <<walk_vars, par_vars, pure_in>>

SpecIndex == InitIndex /\ [][Decompose]_vars

\* ------------------------------------------- two walks running in parallel
\* Two threads call walk, each on a PageTableWalker of its own; the instances
\* were built over the same two dicts.  A step is one pass of a level loop,
\* with its descriptor read and its event append, so the steps of the two
\* walks interleave at every fetch.

Procs == {1, 2}

\* both threads walking on one instance
InstanceOf_Same(p) == 1

\* the instance thread p walks on: its own, or instance 1 when the threads
\* were given one PageTableWalker to share
InstanceOf(p) == IF par_procs[p].shared THEN 1 ELSE p

ParInstances ==
    {<<DefaultRegisters, Stage1Base, Stage2Base>>,
     <<DefaultRegisters, Stage1Base, Override(Stage2Base, Hex(<<1,0,0,0,0,3,0,1,0>>), {})>>,
     <<DefaultRegisters, Override(Stage1Base, Stage1Leaf, Stage1Base[Stage1Leaf] \ {1}), Stage2Base>>}

ParCalls ==
    {[va |-> LowVA, access_type |-> "READ", is_el0 |-> TRUE],
     [va |-> LowVA, access_type |-> "WRITE", is_el0 |-> TRUE],
     [va |-> HighVA, access_type |-> "READ", is_el0 |-> FALSE]}

\* a thread that has not yet called walk(call)
NewProc(call) ==
    [pc |-> "start", call |-> call, st |-> None, s2 |-> None, s2_walk |-> None,
     s1_result |-> None, flat1 |-> None, result |-> None, overlapped |-> FALSE,
     shared |-> FALSE]

\* the locals of Stage2Walker.walk(ipa) before its level loop
Stage2Begin(w, ipa) ==
    [ipa |-> ipa, level |-> w.starting_level, current_table_pa |-> w.vttbr_base,
     events |-> <<>>]

\* one pass of the level loop of Stage2Walker.walk, or its end after level 3
Stage2Iteration(tables, loc, counter) ==
    IF loc.level >= 4
    THEN [done |-> TRUE,
          result |-> Stage2WalkResult(FALSE, loc.ipa, None, loc.events,
                         Some(Stage2FallThroughFault(loc.ipa))),
          current_table_pa |-> loc.current_table_pa, events |-> loc.events,
          counter |-> counter, fetch |-> None]
    ELSE Stage2Level(tables, loc.ipa, loc.level, loc.current_table_pa, loc.events, counter)

InitParOn(instances, shared) ==
    /\ \E i \in instances :
        /\ register_state = i[1]
        /\ s1_tables = i[2]
        /\ s2_tables = i[3]
        /\ stage2_walker = NewStage2Walker(i[1])
        /\ par_walkers = [k \in Procs |-> NewStage2Walker(i[1])]
    /\ last_call = None
    /\ last_result = None
    /\ first_call = None
    /\ first_result = None
    /\ fetches = <<>>
    /\ nwalks = 0
    /\ other_va_walked = FALSE
    /\ perm_in = NoPermCall
    /\ perm_out = None
    /\ pure_in = None
    /\ pure_out = None
    /\ par_procs \in [Procs -> {[NewProc(c) EXCEPT !.shared = shared] : c \in ParCalls}]

InitPar == InitParOn(ParInstances, FALSE)

\* the other thread is inside its walk
Overlaps(p) == \E q \in Procs \ {p} : par_procs[q].pc \notin {"start", "done"}

\* walk up to the first pass of the level loop of the stage-1 walk: the
\* stage-1 walker is created, both counters are reset, the nested stage-2
\* walk of the table base begins
ParStart(p) ==
    /\ par_procs[p].pc = "start"
    /\ \E w1 \in {reset_event_counter(
                    [ttbr_base |-> get_stage1_table_base(register_state, uses_ttbr1(par_procs[p].call.va)),
                     starting_level |-> tcr_starting_level(register_state.tcr_el1, uses_ttbr1(par_procs[p].call.va)),
                     event_counter |-> 0])} :
       \E w \in {reset_event_counter(par_walkers[InstanceOf(p)])} :
          /\ par_walkers' = [par_walkers EXCEPT ![InstanceOf(p)] = w]
          /\ par_procs' = [par_procs EXCEPT ![p] =
                [@ EXCEPT !.pc = "nested",
                          !.st = [level |-> w1.starting_level,
                                  current_table_ipa |-> w1.ttbr_base, events |-> <<>>,
                                  uxn_limit |-> FALSE, pxn_limit |-> FALSE,
                                  ap_limit |-> 0, counter |-> w1.event_counter],
                          !.s2 = Stage2Begin(w, IntermediatePhysicalAddress(w1.ttbr_base)),
                          !.overlapped = Overlaps(p)]]
    /\ UNCHANGED <<walk_vars, pure_in, pure_out>>

\* a stage-2 level loop whose level stays where it is after a TABLE descriptor
AfterStage2Iteration_SameLevel(pr, w, r) ==
    IF ~r.done THEN
        [pr EXCEPT !.s2 = [ipa |-> pr.s2.ipa, level |-> pr.s2.level,
                           current_table_pa |-> r.current_table_pa, events |-> r.events]]
    ELSE [pr EXCEPT !.pc = "stage1",
                    !.s2_walk = [result |-> r.result, counter |-> r.counter, fetches |-> <<>>]]

\* the thread after the pass r of the stage-2 level loop on the walker w
AfterStage2Iteration(pr, w, r) ==
    IF ~r.done THEN
        [pr EXCEPT !.s2 = [ipa |-> pr.s2.ipa, level |-> pr.s2.level + 1,
                           current_table_pa |-> r.current_table_pa, events |-> r.events]]
    ELSE IF pr.pc = "nested" THEN
        [pr EXCEPT !.pc = "stage1",
                   !.s2_walk = [result |-> r.result, counter |-> r.counter, fetches |-> <<>>]]
    ELSE
        [pr EXCEPT !.pc = "done",
                   !.result = Some(WalkFinal(register_state, pr.call.va,
                                  [result |-> pr.s1_result, w2 |-> w, fetches |-> <<>>],
                                  [result |-> r.result, counter |-> r.counter, fetches |-> <<>>],
                                  FlattenFinal(r.result.events, TheValue(pr.s1_result.output_ipa), pr.flat1)).result)]

\* one pass of the level loop of a stage-2 walk, nested or final
ParStage2Level(p) ==
    /\ par_procs[p].pc \in {"nested", "final"}
    /\ \E r \in {Stage2Iteration(s2_tables, par_procs[p].s2, par_walkers[InstanceOf(p)].event_counter)} :
          /\ par_walkers' = [par_walkers EXCEPT ![InstanceOf(p)].event_counter = r.counter]
          /\ par_procs' = [par_procs EXCEPT ![p] =
                [AfterStage2Iteration(par_procs[p], par_walkers[InstanceOf(p)], r)
                    EXCEPT !.overlapped = @ \/ Overlaps(p)]]
    /\ UNCHANGED <<walk_vars, pure_in, pure_out>>

\* the thread after the stage-1 walk returned s1_result and walk flattened
\* its events: the fault is returned, or the final stage-2 walk begins
AfterStage1Walk(pr, w, s1_result, flat1) ==
    IF ~s1_result.success THEN
        [pr EXCEPT !.pc = "done", !.s1_result = s1_result, !.flat1 = flat1,
                   !.result = Some(WalkStage1Fault(register_state, pr.call.va,
                                      [result |-> s1_result, w2 |-> w, fetches |-> <<>>],
                                      flat1).result)]
    ELSE
        [pr EXCEPT !.pc = "final", !.s1_result = s1_result, !.flat1 = flat1,
                   !.s2 = Stage2Begin(w, TheValue(s1_result.output_ipa))]

\* the thread after the rest r of a pass of the stage-1 level loop
AfterStage1Iteration(pr, w, r) ==
    IF r.done THEN
        AfterStage1Walk(pr, w, r.result,
            FlattenStage1(r.result.events, [events |-> <<>>, event_counter |-> 0]))
    ELSE IF pr.st.level + 1 >= 4 THEN
        AfterStage1Walk(pr, w,
            Stage1WalkResult(FALSE, pr.call.va, None, r.st.events,
                             Some(Stage1FallThroughFault(pr.call.va)), None),
            FlattenStage1(r.st.events, [events |-> <<>>, event_counter |-> 0]))
    ELSE
        [pr EXCEPT !.pc = "nested",
                   !.st = [r.st EXCEPT !.level = pr.st.level + 1],
                   !.s2 = Stage2Begin(w, IntermediatePhysicalAddress(r.st.current_table_ipa))]

\* the rest of a pass of the stage-1 level loop once the nested stage-2 walk
\* has returned; when the stage-1 walk ends here, walk flattens its events
\* and sets the stage-2 walker's counter for the final stage-2 walk
ParStage1Level(p) ==
    /\ par_procs[p].pc = "stage1"
    /\ \E r \in {Stage1AfterStage2(s1_tables, par_walkers[InstanceOf(p)], par_procs[p].call.va,
                                   par_procs[p].call.access_type, par_procs[p].call.is_el0,
                                   par_procs[p].st, par_procs[p].s2_walk)} :
       \E pr \in {AfterStage1Iteration(par_procs[p], par_walkers[InstanceOf(p)], r)} :
          /\ par_procs' = [par_procs EXCEPT ![p] = [pr EXCEPT !.overlapped = @ \/ Overlaps(p)]]
          /\ par_walkers' = IF pr.pc = "final"
                            THEN [par_walkers EXCEPT ![InstanceOf(p)] =
                                     set_event_counter(@, pr.flat1.event_counter)]
                            ELSE par_walkers
    /\ UNCHANGED <<walk_vars, pure_in, pure_out>>

NextPar == \E p \in Procs : ParStart(p) \/ ParStage2Level(p) \/ ParStage1Level(p)

SpecPar == InitPar /\ [][NextPar]_vars

\* Two threads calling walk on one PageTableWalker instance.  The stores
\* keep the walks short: the stage-2 level-0 entry missing, or the stage-1
\* level-0 entry of the TTBR0 half missing and IPA 0xC0000000 mapped by a
\* 1 GB block, so that the TTBR1 walk succeeds.
SharedInstances ==
    {<<DefaultRegisters, Stage1Base, Override(Stage2Base, Hex(<<1,0,0,0,0,0,0,0,0>>), {})>>,
     <<DefaultRegisters, Override(Stage1Base, Hex(<<4,0,0,0,0,0,0,0>>), {}),
       Override(Stage2Base, Hex(<<1,0,0,0,0,1,0,1,8>>),
           build_page_descriptor(Hex(<<12,0,0,0,0,0,0,0>>), 3, FALSE, FALSE, TRUE) \ {1})>>}
InitShared == InitParOn(SharedInstances, TRUE)
SpecShared == InitShared /\ [][NextPar]_vars

\* The step-wise walks on the base instance and on the instances with cyclic
\* tables.  A thread inside walk() keeps running, nothing in the walkers
\* blocks or waits: each of its steps is weakly fair.  For the level passes
\* the weak fairness is written out, ENABLED being the guard on pc.
ThreadFair(p) ==
    /\ WF_vars(ParStart(p))
    /\ []<>(par_procs[p].pc \notin {"nested", "final"}) \/ []<><<ParStage2Level(p)>>_vars
    /\ []<>(par_procs[p].pc # "stage1") \/ []<><<ParStage1Level(p)>>_vars
InitTerm == InitParOn({<<DefaultRegisters, Stage1Base, Stage2Base>>} \cup CyclicInstances, FALSE)
SpecTerm == InitTerm /\ [][NextPar]_vars /\ \A p \in Procs : ThreadFair(p)

\* ------------------------------------------------------------- properties

\* the latest walk's result, once a walk was made
Walked == IsSome(last_result)
Result == TheValue(last_result)
Call == TheValue(last_call)

IsFinalEvent(e) == e.purpose[1] = "Final S2 L"
IsNestedEvent(e) == e.purpose[1] = "S2 for S1 L"
IsStage1Event(e) == e.purpose[1] = "S1 L"

\* both stages start at level 0 (4 KB granule, 48-bit VA and IPA)
StartsAtLevel0 ==
    /\ stage2_walker.starting_level = 0
    /\ tcr_starting_level(register_state.tcr_el1, uses_ttbr1(Call.va)) = 0

\* a successful walk through four stage-1 levels, every stage-2 walk of
\* which went through four levels to a level-3 page
FullDepthSuccess ==
    /\ Walked
    /\ Result.status = "SUCCESS"
    /\ Len(TheValue(Result.s1_result).events) = 4
    /\ \A k \in 1 .. 4 :
          LET e == TheValue(Result.s1_result).events[k]
          IN Len(e.s2_events) = 4 /\ e.s2_events[4].descriptor_type = "PAGE"
    /\ Len(TheValue(Result.s2_final_result).events) = 4
    /\ TheValue(Result.s2_final_result).events[4].descriptor_type = "PAGE"

\* C1: in every result of walk the flattened events carry the event ids
\* 1, 2, ..., N in list order, the events of the final stage-2 walk follow the
\* last stage-1 event without a gap, and total_memory_accesses is N.
C1_EventIdsContiguous ==
    Walked =>
        LET ev == Result.events
        IN /\ \A j \in 1 .. Len(ev) : ev[j].event_id = j
           /\ Result.total_memory_accesses = Len(ev)
           /\ \A j \in 2 .. Len(ev) :
                 (IsFinalEvent(ev[j]) /\ ~IsFinalEvent(ev[j - 1]))
                     => /\ IsStage1Event(ev[j - 1])
                        /\ ev[j].event_id = ev[j - 1].event_id + 1

\* a successful full-depth walk: 20 events of stage 1, then 4 final events
C1_Witness ==
    /\ FullDepthSuccess
    /\ Len(Result.events) = 24
    /\ IsFinalEvent(Result.events[21])

\* the rank of an event in hardware order: nested events of level L, then
\* the stage-1 event of level L, then level L + 1, ..., then the final walk
OwnerLevel(e) == IF IsFinalEvent(e) THEN 4 ELSE e.purpose[2]
Rank(e) == 2 * OwnerLevel(e) + (IF IsStage1Event(e) THEN 1 ELSE 0)

\* the position of the k-th stage-1 event in the flattened trace
RECURSIVE Stage1Position(_, _)
Stage1Position(s1_events, k) ==
    IF k = 0 THEN 0
    ELSE Stage1Position(s1_events, k - 1) + Len(s1_events[k].s2_events) + 1

\* C2: in the flattened trace the nested stage-2 events of stage-1 level L
\* stand immediately before the stage-1 level-L event, which stands before
\* every event of level L + 1, and every event of the final stage-2 walk
\* stands after all stage-1 events.
C2_HardwareOrder ==
    Walked =>
        LET ev == Result.events
            s1ev == TheValue(Result.s1_result).events
        IN /\ \A a, b \in 1 .. Len(ev) :
                 a < b => /\ Rank(ev[a]) <= Rank(ev[b])
                          /\ (IsStage1Event(ev[a]) \/ IsStage1Event(ev[b]))
                                => Rank(ev[a]) < Rank(ev[b])
           /\ \A k \in 1 .. Len(s1ev) :
                 LET p == Stage1Position(s1ev, k)
                     n == Len(s1ev[k].s2_events)
                 IN /\ p <= Len(ev)
                    /\ IsStage1Event(ev[p]) /\ ev[p].stage = 1
                    /\ ev[p].level = s1ev[k].level
                    /\ ev[p].address = s1ev[k].descriptor_address_pa
                    /\ \A i \in 1 .. n :
                          /\ IsNestedEvent(ev[p - n + i - 1])
                          /\ ev[p - n + i - 1].stage = 2
                          /\ OwnerLevel(ev[p - n + i - 1]) = s1ev[k].level
                          /\ ev[p - n + i - 1].level = s1ev[k].s2_events[i].level
                          /\ ev[p - n + i - 1].address
                                = s1ev[k].s2_events[i].descriptor_address
           /\ \A j \in 1 .. Len(ev) :
                 IsFinalEvent(ev[j])
                     => /\ ev[j].stage = 2
                        /\ j > Stage1Position(s1ev, Len(s1ev))

\* a walk with nested events for two stage-1 levels and a final walk
C2_Witness ==
    /\ Walked
    /\ Len(TheValue(Result.s1_result).events) >= 2
    /\ \A k \in 1 .. 2 : Len(TheValue(Result.s1_result).events[k].s2_events) >= 2
    /\ IsSome(Result.s2_final_result)
    /\ Len(TheValue(Result.s2_final_result).events) >= 2

\* C3 as stated: with both stages starting at level 0 a walk emits at most
\* 4*4 + 4 = 20 events, and a full-depth successful walk reports 20.
C3_AtMost20Events ==
    (Walked /\ StartsAtLevel0) =>
        /\ Len(Result.events) <= 20
        /\ Result.total_memory_accesses <= 20
        /\ FullDepthSuccess => Result.total_memory_accesses = 20

\* C3 amended: every stage-1 read comes with its own nested stage-2 walk, so
\* the bound is 4*(4 + 1) + 4 = 24 events, reported by a full-depth
\* successful walk.
C3_AtMost24Events ==
    (Walked /\ StartsAtLevel0) =>
        /\ Len(Result.events) <= 24
        /\ Result.total_memory_accesses <= 24
        /\ FullDepthSuccess => Result.total_memory_accesses = 24

C3_Witness ==
    /\ FullDepthSuccess
    /\ StartsAtLevel0
    /\ Result.total_memory_accesses = 24

\* the stage-1 result of the latest walk and its last event
S1Result == TheValue(Result.s1_result)
LastS1Event == S1Result.events[Len(S1Result.events)]
Stage1Failed == Walked /\ ~S1Result.success
FinalFailed == Walked /\ S1Result.success /\ ~TheValue(Result.s2_final_result).success
Stage1StartingLevel == tcr_starting_level(register_state.tcr_el1, uses_ttbr1(Call.va))

\* C4: when the stage-1 walk fails the status follows the fault's stage,
\* S2_FAULT for a stage-2 fault of a nested walk and S1_FAULT for a stage-1
\* fault; a fault of the final stage-2 walk gives S2_FINAL_FAULT.
C4_StatusFromFaultStage ==
    /\ Stage1Failed =>
          Result.status = (IF TheValue(Result.fault).stage = 2 THEN "S2_FAULT"
                           ELSE "S1_FAULT")
    /\ FinalFailed => Result.status = "S2_FINAL_FAULT"

\* C5: a fetched descriptor that classifies as INVALID at its level is the
\* last descriptor fetched in the walk, and the walk's fault is a TRANSLATION
\* fault of the fetching walker's stage at that level.
C5_InvalidStopsWalk ==
    Walked =>
        \A j \in 1 .. Len(fetches) :
            descriptor_type(fetches[j].value, fetches[j].level) = "INVALID"
                => /\ j = Len(fetches)
                   /\ IsSome(Result.fault)
                   /\ TheValue(Result.fault).fault_type = "TRANSLATION_FAULT"
                   /\ TheValue(Result.fault).stage = fetches[j].stage
                   /\ TheValue(Result.fault).level = fetches[j].level

ConsecutiveLevels(events, starting_level) ==
    \A i \in 1 .. Len(events) : events[i].level = starting_level + i - 1

EndsAtLevel(events, level) ==
    /\ Len(events) > 0
    /\ events[Len(events)].level = level

\* C6: the events of every stage-2 walk and of the stage-1 walk have
\* consecutive levels from the walker's starting level, one per descriptor
\* fetch, and a failed walker's last event is the event of the level named in
\* its fault (for a propagated nested fault, the last nested stage-2 event).
C6_OneEventPerLevel ==
    Walked =>
        /\ ConsecutiveLevels(S1Result.events, Stage1StartingLevel)
        /\ \A k \in 1 .. Len(S1Result.events) :
              ConsecutiveLevels(S1Result.events[k].s2_events,
                                stage2_walker.starting_level)
        /\ IsSome(Result.s2_final_result) =>
              ConsecutiveLevels(TheValue(Result.s2_final_result).events,
                                stage2_walker.starting_level)
        /\ Len(fetches) = Len(Result.events)
                            - (IF Stage1Failed /\ TheValue(S1Result.fault).stage = 2
                               THEN 1 ELSE 0)
        /\ Stage1Failed =>
              /\ Len(S1Result.events) > 0
              /\ IF TheValue(S1Result.fault).stage = 1
                 THEN EndsAtLevel(S1Result.events, TheValue(S1Result.fault).level)
                 ELSE EndsAtLevel(LastS1Event.s2_events,
                                  TheValue(S1Result.fault).level)
        /\ FinalFailed =>
              EndsAtLevel(TheValue(Result.s2_final_result).events,
                          TheValue(TheValue(Result.s2_final_result).fault).level)

\* the stage-1 permission table: the (exception level, AP) pairs that may
\* read and those that may write
MayRead == {<<"EL1", 0>>, <<"EL1", 1>>, <<"EL1", 2>>, <<"EL1", 3>>,
            <<"EL0", 1>>, <<"EL0", 3>>}
MayWrite == {<<"EL1", 0>>, <<"EL1", 1>>, <<"EL0", 1>>}
PermissionTable(c) ==
    LET el == IF c.is_el0 THEN "EL0" ELSE "EL1"
    IN CASE c.access_type = "READ" -> <<el, c.ap>> \in MayRead
         [] c.access_type = "WRITE" -> <<el, c.ap>> \in MayWrite
         [] c.access_type = "EXECUTE" -> (el = "EL0" /\ ~c.uxn) \/ (el = "EL1" /\ ~c.pxn)

\* C7: check_permission equals the stage-1 permission table on every input:
\* READ at EL1 for all AP and at EL0 iff AP is 01 or 11, WRITE at EL1 iff AP
\* is 00 or 01 and at EL0 iff AP is 01, EXECUTE at EL0 iff UXN is clear and
\* at EL1 iff PXN is clear.
C7_PermissionTable ==
    IsSome(perm_out) => TheValue(perm_out) = PermissionTable(perm_in)

\* an EL1 write to a read-only page was checked and denied
C7_Witness ==
    /\ IsSome(perm_out)
    /\ perm_in.access_type = "WRITE" /\ perm_in.ap = 2 /\ ~perm_in.is_el0
    /\ TheValue(perm_out) = FALSE

\* the stage-1 walk reached a leaf whose permissions, with the limits of the
\* tables walked through, deny the requested access
LeafDenies ==
    /\ Walked
    /\ Len(S1Result.events) > 0
    /\ LastS1Event.descriptor_type \in {"BLOCK", "PAGE"}
    /\ LET leaf == LastS1Event.descriptor_value
           tables == {k \in 1 .. Len(S1Result.events) - 1 :
                         S1Result.events[k].descriptor_type = "TABLE"}
           uxn == desc_uxn(leaf)
                    \/ \E k \in tables : uxn_table(S1Result.events[k].descriptor_value)
           pxn == desc_pxn(leaf)
                    \/ \E k \in tables : pxn_table(S1Result.events[k].descriptor_value)
       IN ~PermissionTable([access_type |-> Call.access_type, ap |-> desc_ap(leaf),
                            uxn |-> uxn, pxn |-> pxn, is_el0 |-> Call.is_el0])

\* C8: when the stage-1 leaf at level L denies the access, the status is
\* S1_FAULT, the fault is {PERMISSION, stage 1, level L, the requested access
\* type, address = far_el1 = VA}, no IPA, PA or final permissions are
\* reported, the trace ends with the stage-1 level-L event and there is no
\* final stage-2 walk.
C8_PermissionFault ==
    LeafDenies =>
        /\ Result.status = "S1_FAULT"
        /\ Result.fault = Some(FaultRecord("PERMISSION_FAULT", 1, LastS1Event.level,
                                           Call.va.value, Some(Call.access_type),
                                           Some(Call.va.value), None))
        /\ Result.ipa = None
        /\ Result.output_pa = None
        /\ Result.final_permissions = None
        /\ Result.s2_final_result = None
        /\ LET last == Result.events[Len(Result.events)]
           IN /\ last.stage = 1
              /\ IsStage1Event(last)
              /\ last.level = LastS1Event.level
              /\ last.address = LastS1Event.descriptor_address_pa
        /\ \A j \in 1 .. Len(Result.events) : ~IsFinalEvent(Result.events[j])
        /\ fetches[Len(fetches)] = Fetch(1, LastS1Event.level,
                                         LastS1Event.descriptor_address_pa,
                                         LastS1Event.descriptor_value)

\* an EL0 write denied by the level-3 page
C8_Witness ==
    /\ LeafDenies
    /\ Call.access_type = "WRITE" /\ Call.is_el0
    /\ LastS1Event.level = 3
    /\ Result.status = "S1_FAULT"

\* the nested stage-2 walk for a stage-1 table address failed
NestedFault == Stage1Failed /\ TheValue(S1Result.fault).stage = 2

\* C9: when the nested stage-2 walk for the stage-1 level-L table IPA faults
\* at stage-2 level M, the fault is {TRANSLATION, stage 2, level M, address =
\* far_el2 = the table IPA}, the trace ends with the sub-walk's events up to
\* level M followed by one stage-1 level-L event marked INVALID with
\* descriptor address 0 and value 0, and there is no later stage-1 event and
\* no final stage-2 event.
C9_NestedFault ==
    NestedFault =>
        LET ev == Result.events
            n == Len(LastS1Event.s2_events)
            fault == TheValue(Result.fault)
        IN /\ fault.fault_type = "TRANSLATION_FAULT"
           /\ fault.stage = 2
           /\ fault.address = LastS1Event.table_base_ipa
           /\ fault.far_el2 = Some(LastS1Event.table_base_ipa)
           /\ fault.far_el1 = None
           /\ EndsAtLevel(LastS1Event.s2_events, fault.level)
           /\ Len(ev) >= n + 1
           /\ \A i \in 1 .. n :
                 /\ ev[Len(ev) - 1 - n + i].stage = 2
                 /\ ev[Len(ev) - 1 - n + i].address
                        = LastS1Event.s2_events[i].descriptor_address
           /\ ev[Len(ev)].stage = 1
           /\ ev[Len(ev)].level = LastS1Event.level
           /\ ev[Len(ev)].result = "INVALID"
           /\ ev[Len(ev)].address = {}
           /\ ev[Len(ev)].descriptor_value = {}
           /\ \A j \in 1 .. Len(ev) : ~IsFinalEvent(ev[j])
           /\ Result.s2_final_result = None

\* C10: a walk with the same (va, access_type, is_el0) as the first walk of
\* the instance returns a result equal to the first one, also after walks of
\* other addresses; every walk leaves the stage-2 walker's counter where the
\* walk's own stage-2 events put it.
C10_RepeatedWalkEqual ==
    (Walked /\ last_call = first_call) => last_result = first_result

\* the third walk repeats the first after a walk of the other address, and
\* the result carries nested and final stage-2 events
C10_Witness ==
    /\ nwalks = 3
    /\ last_call = first_call
    /\ other_va_walked
    /\ Len(Result.events) = 24
    /\ last_result = first_result

\* the stage-1 base the walk of the latest call selects
SelectedBase ==
    baddr(IF uses_ttbr1(Call.va) THEN register_state.ttbr1_el1
          ELSE register_state.ttbr0_el1)

\* C11 as stated: for a VA in the TTBR1 half the first event of the walk's
\* trace has descriptor PA = TTBR1.baddr + 8 * l0_index(va).
C11_FirstEventAtTtbr1 ==
    (Walked /\ uses_ttbr1(Call.va) /\ Len(Result.events) > 0) =>
        Result.events[1].address
            = calculate_descriptor_address(baddr(register_state.ttbr1_el1),
                                           get_index(Call.va, 0), 8)

\* a read that found bits[1:0] = 01 at level 0 or 3: a descriptor the walkers
\* take for valid but that is neither table, block nor page
Unclassified(f) == 0 \in f.value /\ 1 \notin f.value /\ f.level \in {0, 3}

\* the reads of the first pass of the stage-1 level loop: the nested stage-2
\* reads and, when that nested walk succeeded, the stage-1 read after them
FirstPassReads ==
    IF \E j \in 1 .. Len(fetches) : fetches[j].stage = 1
    THEN CHOOSE j \in 1 .. Len(fetches) :
            fetches[j].stage = 1 /\ \A i \in 1 .. j - 1 : fetches[i].stage = 2
    ELSE Len(fetches)

\* the nested stage-2 walk of a stage-1 event ended on a leaf
NestedSucceeded(e) ==
    /\ Len(e.s2_events) > 0
    /\ e.s2_events[Len(e.s2_events)].descriptor_type \in {"BLOCK", "PAGE"}

\* C11 amended: the stage-1 base is TTBR1.baddr for a VA whose top bits are all
\* ones and TTBR0.baddr otherwise.  The first read of the walk is the first
\* read of the nested stage-2 walk that translates that base, at
\* VTTBR.baddr + 8 * index(base) for the stage-2 starting level; the first
\* event of the trace is a stage-2 event of a nested walk of that base and,
\* when no read of the first pass of the stage-1 loop found bits 01 at level
\* 0 or 3, the trace begins with the reads of that pass in order, so its
\* first event is that first read.  The first stage-1 event has table base
\* IPA = the selected baddr and, when its nested walk succeeded, descriptor
\* PA = PA(base) + 8 * index(va) at the event's level, PA(base) being the
\* output of that nested walk.
C11_Stage1BaseSelected ==
    Walked =>
        /\ Len(fetches) > 0
        /\ fetches[1].stage = 2
        /\ fetches[1].level = stage2_walker.starting_level
        /\ fetches[1].address
             = calculate_descriptor_address(
                   baddr(register_state.vttbr_el2),
                   get_index(IntermediatePhysicalAddress(SelectedBase),
                             stage2_walker.starting_level), 8)
        /\ Len(Result.events) > 0 =>
              /\ Result.events[1].stage = 2
              /\ IsNestedEvent(Result.events[1])
              /\ Result.events[1].address
                   = calculate_descriptor_address(
                         baddr(register_state.vttbr_el2),
                         get_index(IntermediatePhysicalAddress(SelectedBase),
                                   Result.events[1].level), 8)
        /\ (\A j \in 1 .. FirstPassReads : ~Unclassified(fetches[j])) =>
              /\ Len(Result.events) >= FirstPassReads
              /\ \A j \in 1 .. FirstPassReads :
                    /\ Result.events[j].event_id = j
                    /\ Result.events[j].stage = fetches[j].stage
                    /\ Result.events[j].level = fetches[j].level
                    /\ Result.events[j].address = fetches[j].address
                    /\ Result.events[j].descriptor_value = fetches[j].value
        /\ Len(S1Result.events) > 0 =>
              LET first == S1Result.events[1]
              IN /\ first.table_base_ipa = SelectedBase
                 /\ NestedSucceeded(first) =>
                      /\ first.descriptor_address_pa
                           = calculate_descriptor_address(first.table_base_pa,
                                                          get_index(Call.va, first.level), 8)
                      /\ first.table_base_pa
                           = BitOr(first.s2_events[Len(first.s2_events)].output_address,
                                   BitAnd(SelectedBase,
                                          LowMask(<<0, 30, 21, 12>>[
                                              first.s2_events[Len(first.s2_events)].level + 1])))

\* a walk of the TTBR1 address whose first event is its first read, a stage-2
\* read, and whose first stage-1 read found a table at the PA of TTBR1.baddr
C11_Witness ==
    /\ Walked
    /\ uses_ttbr1(Call.va)
    /\ \A j \in 1 .. FirstPassReads : ~Unclassified(fetches[j])
    /\ Result.events[1].address = fetches[1].address
    /\ Len(S1Result.events) > 0
    /\ S1Result.events[1].descriptor_type = "TABLE"
    /\ S1Result.events[1].table_base_ipa = baddr(register_state.ttbr1_el1)
    /\ fetches[FirstPassReads].stage = 1

\* the starting-level rule of the 4 KB granule for a VA size of va_bits
StartingLevelRule(va_bits) ==
    CASE va_bits >= 40 -> 0
      [] va_bits \in 31 .. 39 -> 1
      [] va_bits <= 30 -> 2

\* the stage-1 starting level the rule gives for the latest call
RuleLevel ==
    StartingLevelRule(64 - (IF uses_ttbr1(Call.va) THEN register_state.tcr_el1.t1sz
                            ELSE register_state.tcr_el1.t0sz))

\* C12: the stage-1 walk starts at level 0 for a VA size of at least 40 bits,
\* at level 1 for 31..39 and at level 2 for 30 or less (T1SZ for a TTBR1
\* address, T0SZ otherwise) and the stage-2 walks start at SL0: no stage-1
\* event is below the stage-1 starting level, no stage-2 event is below SL0,
\* and the first stage-1 event is at exactly the starting level.
C12_StartingLevels ==
    Walked =>
        /\ Stage1StartingLevel = RuleLevel
        /\ stage2_walker.starting_level = register_state.vtcr_el2.sl0
        /\ \A j \in 1 .. Len(Result.events) :
              IF Result.events[j].stage = 1
              THEN Result.events[j].level >= RuleLevel
              ELSE Result.events[j].level >= register_state.vtcr_el2.sl0
        /\ \A j \in 1 .. Len(fetches) :
              fetches[j].level >= (IF fetches[j].stage = 1 THEN RuleLevel
                                   ELSE register_state.vtcr_el2.sl0)
        /\ Len(fetches) > 0 => fetches[1].level = register_state.vtcr_el2.sl0
        /\ Len(S1Result.events) > 0 => S1Result.events[1].level = RuleLevel

\* the type the architecture gives a descriptor with bits[1:0] = low at a level
ExpectedType(low, level) ==
    CASE low \in {0, 2} -> "INVALID"
      [] low = 1 /\ level \in {1, 2} -> "BLOCK"
      [] low = 1 /\ level \in {0, 3} -> "INVALID"
      [] low = 3 /\ level < 3 -> "TABLE"
      [] low = 3 /\ level = 3 -> "PAGE"

\* C13: for every descriptor value and level 0..3 exactly one type applies:
\* INVALID when bit 0 is 0, BLOCK iff bits[1:0] = 01 at level 1 or 2, TABLE iff
\* bits[1:0] = 11 below level 3, PAGE iff bits[1:0] = 11 at level 3, INVALID
\* for 01 at level 0 or 3; at most one of is_table / is_block / is_page is
\* true, and the type is INVALID exactly when none of them is true or bit 0 is
\* clear.
C13_OneTypeApplies ==
    IsSome(pure_out) =>
        LET d == TheValue(pure_in)
            r == TheValue(pure_out)
            low == ToInt(d.value \cap {0, 1})
        IN /\ r.descriptor_type = ExpectedType(low, d.level)
           /\ r.is_valid = (0 \in d.value)
           /\ r.is_block = (low = 1 /\ d.level \in {1, 2})
           /\ r.is_table = (low = 3 /\ d.level < 3)
           /\ r.is_page = (low = 3 /\ d.level = 3)
           /\ Cardinality({k \in {"is_table", "is_block", "is_page"} : r[k]}) <= 1
           /\ (r.descriptor_type = "INVALID")
                = ((~r.is_table /\ ~r.is_block /\ ~r.is_page) \/ 0 \notin d.value)
           /\ (r.descriptor_type = "TABLE") = (r.is_valid /\ r.is_table)
           /\ (r.descriptor_type = "BLOCK") = (r.is_valid /\ r.is_block)
           /\ (r.descriptor_type = "PAGE") = (r.is_valid /\ r.is_page)

\* a valid descriptor with bits[1:0] = 01 at level 0 was classified INVALID
C13_Witness ==
    /\ IsSome(pure_out)
    /\ TheValue(pure_in).value \cap {0, 1} = {0}
    /\ TheValue(pure_in).level = 0
    /\ TheValue(pure_out).descriptor_type = "INVALID"
    /\ ~TheValue(pure_out).is_block

\* C15: for the 4 KB granule the four indices and the page offset of an
\* address recombine to the address modulo 2^48, every index is below 512 and
\* the page offset below 4096; calculate_index returns 0 for a level below the
\* granule's min_level or above 3.
C15_IndexDecomposition ==
    IsSome(pure_out) =>
        LET a == TheValue(pure_in)
            r == TheValue(pure_out)
        IN /\ BitOr(BitOr(BitOr(Shl(ToBits(r.index[0]), 39), Shl(ToBits(r.index[1]), 30)),
                          BitOr(Shl(ToBits(r.index[2]), 21), Shl(ToBits(r.index[3]), 12))),
                    r.page_offset)
                = BitAnd(a, LowMask(48))
           /\ \A l \in 0 .. 3 : r.index[l] \in 0 .. 511
           /\ ToInt(r.page_offset) \in 0 .. 4095
           /\ r.index[0 - 1] = 0
           /\ r.index[4] = 0
           /\ \A l \in {0 - 1, 0, 4} : r.index_64kb[l] = 0

\* an address with bits of every field and above bit 47 was decomposed
C15_Witness ==
    /\ IsSome(pure_out)
    /\ {11, 12, 29, 30, 38, 39, 47, 63} \subseteq TheValue(pure_in)
    /\ TheValue(pure_out).index[0] = 257
    /\ TheValue(pure_out).index[1] = 257
    /\ TheValue(pure_out).index_64kb[1] = 32

\* C14: a walk leaves the stage-1 store, the stage-2 store and the register
\* state unchanged: whatever the walks made (successful or faulting, reading
\* addresses absent from a store), both mappings keep exactly their entries
\* and a missing entry read as 0 is never inserted.
C14_StoresUnchanged ==
    [][/\ s1_tables' = s1_tables
       /\ DOMAIN s1_tables' = DOMAIN s1_tables
       /\ s2_tables' = s2_tables
       /\ DOMAIN s2_tables' = DOMAIN s2_tables
       /\ register_state' = register_state]_vars

\* a second or later walk has read an address that is absent from its store
C14_Witness ==
    /\ Walked
    /\ nwalks >= 2
    /\ \E j \in 1 .. Len(fetches) :
          fetches[j].address \notin DOMAIN (IF fetches[j].stage = 1 THEN s1_tables ELSE s2_tables)

\* base | offset of a leaf descriptor d at level L for the address a
LeafBase(d, L) == d \cap (<<30, 21, 12>>[L] .. 47)
LeafOffset(a, L) == a \cap (0 .. <<30, 21, 12>>[L] - 1)
LeafOutput(d, L, a) == LeafBase(d, L) \cup LeafOffset(a, L)

\* the output `out` is the one of the leaf event e for the address a
IsLeafOutput(out, e, a) ==
    /\ e.level \in 1 .. 3
    /\ out = LeafOutput(e.descriptor_value, e.level, a)
    /\ e.output_address = LeafBase(e.descriptor_value, e.level)
    /\ LeafBase(e.descriptor_value, e.level) \cap LeafOffset(a, e.level) = {}
    /\ out \cap (0 .. <<30, 21, 12>>[e.level] - 1) = LeafOffset(a, e.level)
    /\ out \ (0 .. <<30, 21, 12>>[e.level] - 1) = e.descriptor_value \cap (<<30, 21, 12>>[e.level] .. 47)
    /\ out \subseteq 0 .. 47

IsLeaf(e) == e.descriptor_type \in {"BLOCK", "PAGE"}

\* the successful stage-2 walks of the latest walk, as <<leaf event, input
\* address, output>>: the nested ones and the final one
Stage2Leaves ==
    {<<S1Result.events[k].s2_events[Len(S1Result.events[k].s2_events)],
       S1Result.events[k].table_base_ipa, S1Result.events[k].table_base_pa>>
        : k \in {i \in 1 .. Len(S1Result.events) :
                    /\ Len(S1Result.events[i].s2_events) > 0
                    /\ IsLeaf(S1Result.events[i].s2_events[Len(S1Result.events[i].s2_events)])}}
    \cup (IF S1Result.success /\ TheValue(Result.s2_final_result).success
          THEN {<<TheValue(Result.s2_final_result).events[Len(TheValue(Result.s2_final_result).events)],
                  TheValue(S1Result.output_ipa).value,
                  TheValue(TheValue(Result.s2_final_result).output_pa).value>>}
          ELSE {})

\* C16: the output of a leaf descriptor d found at level L while translating
\* the address a, in either stage, is base | offset, with base the bits
\* 47..30 / 47..21 / 47..12 of d and offset a mod 2^30 / 2^21 / 2^12 for L =
\* 1 / 2 / 3; base and offset share no bit, the low bits of the output are
\* those of a, the higher bits those of d's output field, and the output is
\* below 2^48.
C16_LeafOutput ==
    Walked =>
        /\ S1Result.success =>
              /\ IsLeaf(LastS1Event)
              /\ IsLeafOutput(TheValue(S1Result.output_ipa).value, LastS1Event, Call.va.value)
        /\ \A t \in Stage2Leaves : IsLeafOutput(t[3], t[1], t[2])
        /\ Result.status = "SUCCESS" =>
              TheValue(Result.output_pa).value
                 = TheValue(TheValue(Result.s2_final_result).output_pa).value

\* a 1 GB block of stage 1 for an address with offset bits set, and a
\* stage-2 leaf for an address with offset bits set
C16_Witness ==
    /\ Walked
    /\ Result.status = "SUCCESS"
    /\ LastS1Event.level = 1
    /\ LeafOffset(Call.va.value, 1) # {}
    /\ \E t \in Stage2Leaves : LeafOffset(t[2], t[1].level) # {}

\* C17: in every walk result a fault record is present iff the status is not
\* SUCCESS, the final PA is present iff the status is SUCCESS, and the IPA and
\* the final permissions are present iff the stage-1 walk succeeded, that is
\* iff the status is SUCCESS or S2_FINAL_FAULT.
C17_FieldsPresent ==
    Walked =>
        /\ IsSome(Result.fault) <=> Result.status # "SUCCESS"
        /\ IsSome(Result.output_pa) <=> Result.status = "SUCCESS"
        /\ IsSome(Result.ipa) <=> S1Result.success
        /\ IsSome(Result.final_permissions) <=> S1Result.success
        /\ S1Result.success <=> Result.status \in {"SUCCESS", "S2_FINAL_FAULT"}

\* the final stage-2 walk faulted after a successful stage-1 walk
C17_Witness ==
    /\ Walked
    /\ Result.status = "S2_FINAL_FAULT"
    /\ IsSome(Result.ipa)
    /\ IsSome(Result.final_permissions)
    /\ IsSome(Result.fault)
    /\ ~IsSome(Result.output_pa)

\* C19: every event of the flattened trace records exactly one read of a
\* translation-table store, so total_memory_accesses is the number of
\* descriptor reads the walk performed in both stores, for every outcome,
\* the walks ending in a nested stage-2 fault included.
C19_OneReadPerEvent ==
    Walked =>
        /\ Result.total_memory_accesses = Len(fetches)
        /\ Len(Result.events) = Len(fetches)
        /\ \A j \in 1 .. Len(Result.events) :
              j <= Len(fetches) =>
                 /\ Result.events[j].stage = fetches[j].stage
                 /\ Result.events[j].level = fetches[j].level
                 /\ Result.events[j].address = fetches[j].address
                 /\ Result.events[j].descriptor_value = fetches[j].value

\* a TABLE descriptor traversed by the stage-1 walk has the bit set
TableLimit(bit) ==
    \E k \in 1 .. Len(S1Result.events) :
        /\ S1Result.events[k].descriptor_type = "TABLE"
        /\ bit \in S1Result.events[k].descriptor_value

\* the stage-1 walk ended in a stage-1 permission fault
Stage1PermissionFaulted ==
    /\ ~S1Result.success
    /\ Result.status = "S1_FAULT"
    /\ TheValue(Result.fault).fault_type = "PERMISSION_FAULT"
    /\ TheValue(Result.fault).stage = 1

\* C20: the execute-never limits accumulate along the stage-1 walk: when a
\* TABLE descriptor traversed has UXNTable (bit 60) set, an EL0 EXECUTE access
\* that reaches the leaf ends in a stage-1 PERMISSION fault and a successful
\* walk reports execute_el0 = false, whatever the leaf's UXN bit; the same
\* for PXNTable (bit 59), EL1 EXECUTE and execute_el1; a deeper table
\* descriptor does not clear the limit.
C20_ExecuteNeverLimits ==
    Walked =>
        /\ TableLimit(60) =>
              /\ (Call.access_type = "EXECUTE" /\ Call.is_el0) =>
                    /\ ~S1Result.success
                    /\ IsLeaf(LastS1Event) => Stage1PermissionFaulted
              /\ S1Result.success => ~TheValue(Result.final_permissions).execute_el0
        /\ TableLimit(59) =>
              /\ (Call.access_type = "EXECUTE" /\ ~Call.is_el0) =>
                    /\ ~S1Result.success
                    /\ IsLeaf(LastS1Event) => Stage1PermissionFaulted
              /\ S1Result.success => ~TheValue(Result.final_permissions).execute_el1

\* UXNTable set at level 0 only, two deeper table descriptors without it and
\* a leaf without UXN: the EL0 EXECUTE walk has ended in the permission fault
C20_Witness ==
    /\ Walked
    /\ Call.access_type = "EXECUTE" /\ Call.is_el0
    /\ Len(S1Result.events) = 4
    /\ 60 \in S1Result.events[1].descriptor_value
    /\ \A k \in 2 .. 3 : S1Result.events[k].descriptor_type = "TABLE"
                         /\ 60 \notin S1Result.events[k].descriptor_value
    /\ ~desc_uxn(LastS1Event.descriptor_value)
    /\ Stage1PermissionFaulted

\* what walk(call) returns on an instance of its own with no other walk running
Alone(call) ==
    PageTableWalk(register_state, s1_tables, s2_tables, NewStage2Walker(register_state),
                  call.va, call.access_type, call.is_el0).result

\* C18: two walks running in parallel on distinct PageTableWalker instances
\* that share only the read-only stage-1 and stage-2 stores return, under
\* every interleaving of their descriptor fetches and event appends, exactly
\* the results each returns when run alone.
C18_ParallelWalksAsAlone ==
    \A p \in DOMAIN par_procs :
        par_procs[p].pc = "done" =>
            TheValue(par_procs[p].result) = Alone(par_procs[p].call)

\* both walks have returned, each took steps while the other was inside its
\* walk, and the two were different calls
C18_Witness ==
    /\ DOMAIN par_procs = Procs
    /\ \A p \in Procs : par_procs[p].pc = "done" /\ par_procs[p].overlapped
    /\ par_procs[1].call # par_procs[2].call
    /\ TheValue(par_procs[1].result).status = "SUCCESS"

\* the addresses of the TABLE descriptors the latest stage-1 walk traversed
TraversedTables ==
    {S1Result.events[k].descriptor_address_pa :
        k \in {i \in 1 .. Len(S1Result.events) : S1Result.events[i].descriptor_type = "TABLE"}}

\* the stage-1 store with APTable (bits 62:61) of those descriptors set to ap
WithApTable(ap) ==
    [a \in DOMAIN s1_tables |->
        IF a \in TraversedTables
        THEN (s1_tables[a] \ {61, 62}) \cup Shl(ToBits(ap), 61)
        ELSE s1_tables[a]]

\* what the latest call returns on the store tabs
ResultOn(tabs) ==
    PageTableWalk(register_state, tabs, s2_tables, NewStage2Walker(register_state),
                  Call.va, Call.access_type, Call.is_el0).result

\* the two results agree on what the walk decided
SameOutcome(r1, r2) ==
    /\ r1.status = r2.status
    /\ IsSome(r1.fault) = IsSome(r2.fault)
    /\ IsSome(r1.fault) =>
          /\ TheValue(r1.fault).fault_type = TheValue(r2.fault).fault_type
          /\ TheValue(r1.fault).stage = TheValue(r2.fault).stage
          /\ TheValue(r1.fault).level = TheValue(r2.fault).level
    /\ r1.ipa = r2.ipa
    /\ r1.output_pa = r2.output_pa
    /\ r1.final_permissions = r2.final_permissions

\* C21: the leaf AP is authoritative: walks whose stage-1 tables differ only
\* in APTable (bits 62:61) of TABLE descriptors return the same status, fault
\* kind and level, IPA, PA and final permissions, and the READ and WRITE
\* permissions are those of the leaf's AP (bits 7:6) alone.
C21_LeafApAuthoritative ==
    Walked =>
        /\ \A ap \in 0 .. 3 : SameOutcome(Result, ResultOn(WithApTable(ap)))
        /\ S1Result.success =>
              LET ap == ToInt(LastS1Event.descriptor_value \cap {6, 7}) \div 64
                  p == TheValue(Result.final_permissions)
              IN /\ p.read_el0 = (<<"EL0", ap>> \in MayRead)
                 /\ p.write_el0 = (<<"EL0", ap>> \in MayWrite)
                 /\ p.read_el1 = (<<"EL1", ap>> \in MayRead)
                 /\ p.write_el1 = (<<"EL1", ap>> \in MayWrite)
        /\ (~S1Result.success /\ TheValue(Result.fault).fault_type = "PERMISSION_FAULT"
              /\ Call.access_type \in {"READ", "WRITE"}) =>
              ~PermissionTable([access_type |-> Call.access_type,
                                ap |-> ToInt(LastS1Event.descriptor_value \cap {6, 7}) \div 64,
                                uxn |-> FALSE, pxn |-> FALSE, is_el0 |-> Call.is_el0])

\* an EL0 write succeeded through a table descriptor with APTable = 11 and a
\* leaf with AP = 01
C21_Witness ==
    /\ Walked
    /\ Call.access_type = "WRITE" /\ Call.is_el0
    /\ Result.status = "SUCCESS"
    /\ {61, 62} \subseteq S1Result.events[1].descriptor_value
    /\ S1Result.events[1].descriptor_type = "TABLE"
    /\ LastS1Event.descriptor_value \cap {6, 7} = {6}
    /\ TheValue(Result.final_permissions).write_el0

\* the stage-2 store with S2AP (bits 7:6) and XN (bit 54) of the leaves the
\* latest walk reached set to s2ap and xn
WithStage2Permissions(s2ap, xn) ==
    [a \in DOMAIN s2_tables |->
        IF a \in {t[1].descriptor_address : t \in Stage2Leaves}
        THEN ((s2_tables[a] \ {6, 7, 54}) \cup Shl(ToBits(s2ap), 6))
                \cup (IF xn THEN {54} ELSE {})
        ELSE s2_tables[a]]

\* what the latest call returns on the stage-2 store tabs
ResultOnStage2(tabs) ==
    PageTableWalk(register_state, s1_tables, tabs, NewStage2Walker(register_state),
                  Call.va, Call.access_type, Call.is_el0).result

\* C22: stage-2 permissions never gate a translation: every stage-2 walk,
\* nested or final, that reaches a valid BLOCK or PAGE leaf succeeds for
\* every access type whatever the leaf's S2AP (bits 7:6) and XN, every fault
\* with stage = 2 has kind TRANSLATION, and a PERMISSION fault is a stage-1
\* fault.
C22_Stage2NeverGates ==
    Walked =>
        /\ \A k \in 1 .. Len(S1Result.events) :
              LET e == S1Result.events[k]
              IN (Len(e.s2_events) > 0 /\ IsLeaf(e.s2_events[Len(e.s2_events)])) =>
                    ~(k = Len(S1Result.events) /\ ~S1Result.success
                        /\ TheValue(S1Result.fault).stage = 2)
        /\ IsSome(Result.s2_final_result) =>
              LET r == TheValue(Result.s2_final_result)
              IN (Len(r.events) > 0 /\ IsLeaf(r.events[Len(r.events)])) =>
                    r.success /\ Result.status = "SUCCESS"
        /\ IsSome(Result.fault) =>
              /\ TheValue(Result.fault).stage = 2
                    => TheValue(Result.fault).fault_type = "TRANSLATION_FAULT"
              /\ TheValue(Result.fault).fault_type = "PERMISSION_FAULT"
                    => TheValue(Result.fault).stage = 1
        /\ \A v \in {<<0, TRUE>>, <<3, FALSE>>} :
              SameOutcome(Result, ResultOnStage2(WithStage2Permissions(v[1], v[2])))

\* a write succeeded through a final stage-2 leaf with S2AP = 00 and XN = 1
C22_Witness ==
    /\ Walked
    /\ Call.access_type = "WRITE"
    /\ Result.status = "SUCCESS"
    /\ LET r == TheValue(Result.s2_final_result)
       IN r.events[Len(r.events)].descriptor_value \cap {6, 7, 54} = {54}

\* the store tabs with AF (bit 10) inverted in the entries at the addresses
FlipAccessFlag(tabs, addresses) ==
    [a \in DOMAIN tabs |->
        IF a \in addresses THEN BitXor(tabs[a], {10}) ELSE tabs[a]]

\* what the latest call returns with the registers regs and the stores t1, t2
ResultWith(regs, t1, t2) ==
    PageTableWalk(regs, t1, t2, NewStage2Walker(regs), Call.va, Call.access_type,
                  Call.is_el0).result

\* the address of the stage-1 leaf the latest walk reached, if any
Stage1LeafAddresses ==
    IF Len(S1Result.events) > 0 /\ IsLeaf(LastS1Event)
    THEN {LastS1Event.descriptor_address_pa} ELSE {}

\* C23: no walk returns a fault of kind ACCESS_FLAG or ADDRESS_SIZE: a
\* stage-1 or stage-2 leaf with AF (bit 10) = 0 translates exactly as the
\* same leaf with AF = 1, an output address is never rejected for exceeding
\* the configured PA size, and every fault returned is a TRANSLATION or a
\* PERMISSION fault.
C23_NoAccessFlagOrSizeFault ==
    Walked =>
        /\ IsSome(Result.fault) =>
              TheValue(Result.fault).fault_type \in {"TRANSLATION_FAULT", "PERMISSION_FAULT"}
        /\ SameOutcome(Result,
              ResultWith(register_state, FlipAccessFlag(s1_tables, Stage1LeafAddresses),
                         s2_tables))
        /\ SameOutcome(Result,
              ResultWith(register_state, s1_tables,
                  FlipAccessFlag(s2_tables, {t[1].descriptor_address : t \in Stage2Leaves})))
        /\ \A size \in {0, 2, 5} :
              SameOutcome(Result,
                  ResultWith([register_state EXCEPT !.tcr_el1.ips = size, !.vtcr_el2.ps = size],
                             s1_tables, s2_tables))

\* with PS = PA_32_BITS a walk succeeded through a final stage-2 leaf with
\* AF = 0 to a PA above 2^32
C23_Witness ==
    /\ Walked
    /\ Result.status = "SUCCESS"
    /\ register_state.vtcr_el2.ps = 0
    /\ TheValue(Result.output_pa).value \cap (32 .. 47) # {}
    /\ LET r == TheValue(Result.s2_final_result)
       IN 10 \notin r.events[Len(r.events)].descriptor_value

\* the points of the snapshots of the latest result, in order
SnapshotPoints == [k \in 1 .. Len(Result.register_snapshots) |-> Result.register_snapshots[k].point]

\* C24: register_snapshots is the prefix of [start, after_s1, complete] that
\* matches how far the walk got: [start] when stage 1 faulted, directly or
\* through a nested stage-2 walk; [start, after_s1] with the IPA filled in
\* and no PA for S2_FINAL_FAULT; all three, the last with IPA and PA, on
\* SUCCESS.
C24_SnapshotPrefix ==
    Walked =>
        LET snaps == Result.register_snapshots
        IN /\ SnapshotPoints = SubSeq(<<"start", "after_s1", "complete">>, 1, Len(snaps))
           /\ Len(snaps) = (CASE Result.status = "SUCCESS" -> 3
                              [] Result.status = "S2_FINAL_FAULT" -> 2
                              [] OTHER -> 1)
           /\ ~S1Result.success <=> Len(snaps) = 1
           /\ snaps[1].VA = Some(Call.va.value)
           /\ snaps[1].IPA = None /\ snaps[1].PA = None
           /\ snaps[1].TTBR0_EL1 = register_state.ttbr0_el1
           /\ snaps[1].TTBR1_EL1 = register_state.ttbr1_el1
           /\ snaps[1].VTTBR_EL2 = register_state.vttbr_el2
           /\ Len(snaps) >= 2 =>
                 /\ snaps[2].VA = Some(Call.va.value)
                 /\ snaps[2].IPA = Some(TheValue(Result.ipa).value)
                 /\ snaps[2].PA = None
           /\ Len(snaps) = 3 =>
                 /\ snaps[3].VA = Some(Call.va.value)
                 /\ snaps[3].IPA = Some(TheValue(Result.ipa).value)
                 /\ snaps[3].PA = Some(TheValue(Result.output_pa).value)

\* the final stage-2 walk faulted: two snapshots, the second with the IPA
C24_Witness ==
    /\ Walked
    /\ Result.status = "S2_FINAL_FAULT"
    /\ Len(Result.register_snapshots) = 2
    /\ Result.register_snapshots[2].point = "after_s1"
    /\ IsSome(Result.register_snapshots[2].IPA)

\* the 16 hexadecimal digits of a 64-bit address, after "0x"
HexDigits(value) ==
    <<"0x">> \o [i \in 1 .. 16 |->
                    ToInt({b \in 0 .. 3 : 4 * (16 - i) + b \in value})]

\* the IPA the faulting stage-2 walk of the latest result was translating
FaultingIpa ==
    IF S1Result.success THEN TheValue(Result.ipa).value
    ELSE LastS1Event.table_base_ipa

\* C25: for every fault in a walk result the serialized fault record
\* (FaultRecord.to_dict) reports FAR_EL1 equal to the faulting VA for a
\* stage-1 fault and FAR_EL2 equal to the faulting IPA for a stage-2 fault,
\* formatted as 0x%016X, for every address of the VA / IPA range.
C25_SerializedFar ==
    (Walked /\ IsSome(Result.fault)) =>
        LET d == FaultRecord_to_dict(TheValue(Result.fault))
        IN /\ d.stage = 1 => d.FAR_EL1 = Some(HexDigits(Call.va.value))
           /\ d.stage = 2 => d.FAR_EL2 = Some(HexDigits(FaultingIpa))

\* the largest trace of a walk whose stage-1 walk starts at level s1_start and
\* whose stage-2 walks start at level s2_start
EventBound(s1_start, s2_start) ==
    (4 - s1_start) * (4 - s2_start + 1) + (4 - s2_start)

Stage2Start == stage2_walker.starting_level

\* C26: a walk makes at most 4 stage-1 reads, each preceded by at most 4
\* stage-2 reads, and at most 4 stage-2 reads for the final IPA; its trace has
\* at most (4 - s1_start) * (4 - SL0 + 1) + (4 - SL0) events, which is at most
\* 24, and a successful walk from level 0 through level-3 pages in both
\* stages has exactly 24.
C26_EventBound ==
    Walked =>
        /\ Len(S1Result.events) <= 4 - Stage1StartingLevel
        /\ Len(S1Result.events) <= 4
        /\ \A k \in 1 .. Len(S1Result.events) :
              /\ Len(S1Result.events[k].s2_events) <= 4 - Stage2Start
              /\ Len(S1Result.events[k].s2_events) <= 4
        /\ IsSome(Result.s2_final_result) =>
              /\ Len(TheValue(Result.s2_final_result).events) <= 4 - Stage2Start
              /\ Len(TheValue(Result.s2_final_result).events) <= 4
        /\ Len(Result.events) <= EventBound(Stage1StartingLevel, Stage2Start)
        /\ Len(fetches) <= EventBound(Stage1StartingLevel, Stage2Start)
        /\ EventBound(Stage1StartingLevel, Stage2Start) <= 24
        /\ (FullDepthSuccess /\ Stage1StartingLevel = 0 /\ Stage2Start = 0) =>
              Len(Result.events) = 24

\* a successful walk from level 0 whose 24 reads fill the bound
C26_Witness ==
    /\ FullDepthSuccess
    /\ EventBound(Stage1StartingLevel, Stage2Start) = 24
    /\ Len(fetches) = 24
    /\ Len(Result.events) = 24

\* the passes a thread still has to make, at most: 8 for each stage-1 level
\* to come, less the stage-2 levels already passed
Remaining(pr) ==
    IF pr.pc = "start" THEN 100
    ELSE IF pr.pc = "nested" THEN 8 * (4 - pr.st.level) + 2 + (4 - pr.s2.level)
    ELSE IF pr.pc = "stage1" THEN 8 * (4 - pr.st.level) + 1
    ELSE IF pr.pc = "final" THEN 1 + (4 - pr.s2.level)
    ELSE 0

\* the levels of a sequence of events go up by one and stop at 3
LevelsRise(events) ==
    \A k \in 1 .. Len(events) :
        /\ events[k].level \in 0 .. 3
        /\ k > 1 => events[k].level = events[k - 1].level + 1

ThreadLevelsRise(pr) ==
    /\ pr.pc \in {"nested", "stage1", "final"} =>
          /\ pr.st.level \in 0 .. 3
          /\ LevelsRise(pr.st.events)
          /\ \A k \in 1 .. Len(pr.st.events) : LevelsRise(pr.st.events[k].s2_events)
    /\ pr.pc \in {"nested", "final"} =>
          /\ pr.s2.level \in 0 .. 4
          /\ LevelsRise(pr.s2.events)

ThreadAdvances(p) ==
    par_procs'[p] # par_procs[p] =>
        /\ Remaining(par_procs'[p]) < Remaining(par_procs[p])
        /\ Remaining(par_procs'[p]) >= 0
        /\ (par_procs[p].pc # "start" /\ par_procs'[p].pc # "done") =>
              par_procs'[p].st.level >= par_procs[p].st.level

Returned(p) ==
    /\ par_procs[p].pc = "done"
    /\ TheValue(par_procs[p].result).status \in {"SUCCESS", "S1_FAULT", "S2_FAULT", "S2_FINAL_FAULT"}

\* C27: every walk terminates with a result that has one of the four
\* statuses, whatever the tables hold: the level of each walker only goes up
\* and stops at 3, so a walk ends even when TABLE descriptors form a cycle
\* or every entry read is a TABLE descriptor.
C27_WalkTerminates ==
    /\ [](\A p \in Procs : ThreadLevelsRise(par_procs[p]))
    /\ [][\A p \in Procs : ThreadAdvances(p)]_vars
    /\ \A p \in Procs : <>Returned(p)

\* a walk that went through the stage-2 self loop and a stage-1 store of
\* TABLE descriptors only, down to level 3 in stage 1 and in every nested
\* stage-2 walk, and returned
C27_Witness ==
    /\ s2_tables = Stage2SelfLoop
    /\ s1_tables = Stage1AllTables
    /\ \E p \in Procs :
          /\ Returned(p)
          /\ Len(par_procs[p].s1_result.events) = 4
          /\ \A k \in 1 .. 4 : Len(par_procs[p].s1_result.events[k].s2_events) = 4
          /\ Len(TheValue(par_procs[p].result).events) = 20

\* the boolean of an AccessPermissions for an access type and exception level
PermissionFor(perms, access_type, is_el0) ==
    IF access_type = "READ" THEN (IF is_el0 THEN perms.read_el0 ELSE perms.read_el1)
    ELSE IF access_type = "WRITE" THEN (IF is_el0 THEN perms.write_el0 ELSE perms.write_el1)
    ELSE (IF is_el0 THEN perms.execute_el0 ELSE perms.execute_el1)

\* the combined permissions of the leaf the latest stage-1 walk ended on
CombinedPermissions ==
    from_ap_bits(desc_ap(LastS1Event.descriptor_value),
                 desc_uxn(LastS1Event.descriptor_value) \/ TableLimit(60),
                 desc_pxn(LastS1Event.descriptor_value) \/ TableLimit(59))

\* C28: the permission decision and the reported permissions agree: a
\* successful stage-1 walk returns final_permissions whose boolean for the
\* access type and exception level of the call is true, after a stage-1
\* PERMISSION fault from_ap_bits of the combined (AP, UXN, PXN) has that
\* boolean false, and check_permission and from_ap_bits give the same answer
\* for every AP, UXN, PXN, access type and exception level.
C28_DecisionMatchesReport ==
    /\ \A at \in AccessTypes, ap \in 0 .. 3, uxn \in BOOLEAN, pxn \in BOOLEAN, el0 \in BOOLEAN :
          check_permission(at, ap, uxn, pxn, el0)
              = PermissionFor(from_ap_bits(ap, uxn, pxn), at, el0)
    /\ Walked =>
          /\ S1Result.success =>
                /\ PermissionFor(TheValue(S1Result.final_permissions),
                                 Call.access_type, Call.is_el0)
                /\ TheValue(S1Result.final_permissions) = CombinedPermissions
                /\ Result.final_permissions = S1Result.final_permissions
          /\ Stage1PermissionFaulted =>
                ~PermissionFor(CombinedPermissions, Call.access_type, Call.is_el0)

\* an EL0 read that succeeded on a read-only page (AP = 11), followed by an
\* EL0 write that ended in the permission fault
C28_Witness ==
    /\ Walked
    /\ Stage1PermissionFaulted
    /\ Call.access_type = "WRITE" /\ Call.is_el0
    /\ desc_ap(LastS1Event.descriptor_value) = 3
    /\ TheValue(first_result).status = "SUCCESS"
    /\ TheValue(first_call).access_type = "READ" /\ TheValue(first_call).is_el0
    /\ TheValue(TheValue(first_result).final_permissions).read_el0

\* the fault records the walkers returned to the latest walk
WalkerFaults ==
    (IF IsSome(S1Result.fault) THEN {TheValue(S1Result.fault)} ELSE {})
    \cup (IF IsSome(Result.s2_final_result) /\ IsSome(TheValue(Result.s2_final_result).fault)
          THEN {TheValue(TheValue(Result.s2_final_result).fault)} ELSE {})
    \cup (IF IsSome(Result.fault) THEN {TheValue(Result.fault)} ELSE {})

\* C29: every fault record returned by a walker names the address register of
\* its own stage: a stage-1 fault has far_el1 = address = the input VA and no
\* far_el2, a stage-2 fault has far_el2 = address = the IPA being translated
\* and no far_el1, on every path that returns a fault, the end of a level
\* loop without a leaf included.
C29_FaultNamesOwnRegister ==
    Walked =>
        \A f \in WalkerFaults :
            /\ f.stage = 1 => /\ f.address = Call.va.value
                              /\ f.far_el1 = Some(f.address)
                              /\ f.far_el2 = None
            /\ f.stage = 2 => /\ f.address = FaultingIpa
                              /\ f.far_el2 = Some(f.address)
                              /\ f.far_el1 = None

\* the event_id values of the stage-2 events inside a walk result
Stage2EventIds(r) ==
    <<[k \in 1 .. Len(TheValue(r.s1_result).events) |->
          [j \in 1 .. Len(TheValue(r.s1_result).events[k].s2_events) |->
              TheValue(r.s1_result).events[k].s2_events[j].event_id]],
      IF IsSome(r.s2_final_result)
      THEN [j \in 1 .. Len(TheValue(r.s2_final_result).events) |->
              TheValue(r.s2_final_result).events[j].event_id]
      ELSE <<>>>>

\* C30: when two walk calls are interleaved on one PageTableWalker instance,
\* with its one Stage2Walker and event counter, each call still returns the
\* result it returns alone: same status, addresses, fault, flattened event
\* ids 1..N, and the same Stage2WalkEvent.event_id values inside s1_result
\* and s2_final_result.
C30_SharedWalksAsAlone ==
    \A p \in DOMAIN par_procs :
        (par_procs[p].pc = "done" /\ par_procs[p].shared) =>
            \E r \in {TheValue(par_procs[p].result)} : \E a \in {Alone(par_procs[p].call)} :
                /\ r.status = a.status
                /\ r.output_pa = a.output_pa /\ r.ipa = a.ipa
                /\ r.fault = a.fault
                /\ r.events = a.events
                /\ \A k \in 1 .. Len(r.events) : r.events[k].event_id = k
                /\ Stage2EventIds(r) = Stage2EventIds(a)

====
